---------------------------- MODULE Spec2Model ----------------------------
(***************************************************************************)
(* Model of the conversational query pipeline of hypersignal_poc:          *)
(*   backend/app/services/agent_service.py  (DataAgent)                    *)
(*   backend/app/routers/chat.py            (send_message,                 *)
(*                                           send_message_stream)          *)
(*                                                                         *)
(* A Python str is modelled as a sequence of Unicode code points (Nat),    *)
(* so that character ranges of the regular expressions, str.lower() and    *)
(* len() are computed as the code computes them.                           *)
(***************************************************************************)
EXTENDS Integers, Sequences, FiniteSets, TLC

VARIABLES
    \* ---- classifier harness (analyze_intent as a pure function) ----
    text,        \* the raw user text handed to analyze_intent
    meta,        \* the FileMetadata handed to analyze_intent, or NoMetadata
    intent,      \* the value analyze_intent returned, or NotYet
    \* ---- pure functions of the agent applied to an input ----
    arg,         \* the input handed to the function
    out,         \* the value the function returned
    again,       \* the value a second application returned
    \* ---- message runs (chat.py handlers) ----
    pc,          \* position of the handler that is running; "idle", "done"
    side,        \* which of two identical deployments serves the request
    req,         \* the ChatRequest being served and the endpoint it was sent to
    loc,         \* the local variables of the handler and of the agent methods
    log,         \* events yielded and collaborator calls made by this run, in order
    resp,        \* what each collaborator answered in this run
    chats,       \* collection "chat_history" of each deployment: chat_id -> document
    pool,        \* collection "suggested_questions" of each deployment: the dataset's document
    outcome,     \* what the handler returned to its caller
    prev         \* the finished run of deployment A, kept for comparison

intentVars == <<text, meta, intent, arg, out, again>>
runVars == <<pc, side, req, loc, log, resp, chats, pool, outcome, prev>>
vars == <<text, meta, intent, arg, out, again,
          pc, side, req, loc, log, resp, chats, pool, outcome, prev>>

----------------------------------------------------------------------------
(* Bounds of the model. *)

\* longest text (in code points) handed to the classifier harness
MaxLen == 3

\* longest stored conversation at the start of a run, in pairs of turns
MaxHistPairs == 2

\* largest stored suggestion pool at the start of a run
MaxPool == 5

\* most lines of a common table expression placed before the final selection
MaxFill == 4

\* most lines of the final selection of a query handed to the repair
MaxBody == 3

----------------------------------------------------------------------------
(* Python str helpers over sequences of code points. *)

None == "None"
NotYet == "NotYet"
\* metadata=None, in the shape of a FileMetadata so that the two compare
NoMetadata == [file_id |-> "None", filename |-> <<>>, columns |-> <<>>]

\* str.isspace() code points that can occur in the modelled texts
WhiteSpace == {9, 10, 11, 12, 13, 32}

\* one character of str.lower(): only ASCII letters have case in the texts modelled
LowerChar(c) == IF c \in 65..90 THEN c + 32 ELSE c

\* str.lower()
Lower(s) == [i \in 1..Len(s) |-> LowerChar(s[i])]

\* str.strip(): drop leading and trailing whitespace
Strip(s) ==
    LET keep == {i \in 1..Len(s) : s[i] \notin WhiteSpace}
    IN  IF keep = {} THEN <<>>
        ELSE LET lo == CHOOSE i \in keep : \A j \in keep : i <= j
                 hi == CHOOSE i \in keep : \A j \in keep : j <= i
             IN  SubSeq(s, lo, hi)

\* `sub in s` for two str values
Contains(s, sub) ==
    \E i \in 1..(Len(s) - Len(sub) + 1) : SubSeq(s, i, i + Len(sub) - 1) = sub

\* concatenation of a sequence of str
RECURSIVE Concat(_)
Concat(ss) == IF ss = <<>> THEN <<>> ELSE Head(ss) \o Concat(Tail(ss))

\* the range of a sequence
Range(s) == {s[i] : i \in 1..Len(s)}

----------------------------------------------------------------------------
(* A small regular-expression matcher: a pattern is a sequence of elements  *)
(* [cs: set of code points, q: "one" | "opt" | "star" | "plus"], optionally *)
(* followed by the end anchor $.                                            *)

One(cs) == [cs |-> cs, q |-> "one"]
Opt(cs) == [cs |-> cs, q |-> "opt"]
Star(cs) == [cs |-> cs, q |-> "star"]
Plus(cs) == [cs |-> cs, q |-> "plus"]

\* a literal string as a pattern
Lit(s) == [i \in 1..Len(s) |-> One({s[i]})]

\* `$`: the end of the string, or just before a newline that ends the string
AtEnd(s, p) == p > Len(s) \/ (p = Len(s) /\ s[p] = 10)

\* does pattern `pat` from element k match s starting at position p?
RECURSIVE MatchHere(_, _, _, _, _)
MatchHere(pat, k, s, p, end) ==
    IF k > Len(pat) THEN (~end \/ AtEnd(s, p))
    ELSE LET e == pat[k]
             hit == p <= Len(s) /\ s[p] \in e.cs
         IN  CASE e.q = "one"  -> hit /\ MatchHere(pat, k + 1, s, p + 1, end)
               [] e.q = "opt"  -> \/ (hit /\ MatchHere(pat, k + 1, s, p + 1, end))
                                  \/ MatchHere(pat, k + 1, s, p, end)
               [] e.q = "star" -> \/ (hit /\ MatchHere(pat, k, s, p + 1, end))
                                  \/ MatchHere(pat, k + 1, s, p, end)
               [] e.q = "plus" -> hit /\ (\/ MatchHere(pat, k, s, p + 1, end)
                                          \/ MatchHere(pat, k + 1, s, p + 1, end))

\* re.match(pattern, s): the pattern matches at the start of s
ReMatch(pat, end, s) == MatchHere(pat, 1, s, 1, end)

\* re.search(pattern, s): the pattern matches somewhere in s
ReSearch(pat, end, s) == \E p \in 1..(Len(s) + 1) : MatchHere(pat, 1, s, p, end)

\* re.findall(r'[cs]+', s): the maximal runs of characters of cs, left to right
RECURSIVE FindAllRuns(_, _, _)
FindAllRuns(cs, s, cur) ==
    IF s = <<>> THEN (IF cur = <<>> THEN <<>> ELSE <<cur>>)
    ELSE IF Head(s) \in cs THEN FindAllRuns(cs, Tail(s), Append(cur, Head(s)))
    ELSE (IF cur = <<>> THEN <<>> ELSE <<cur>>) \o FindAllRuns(cs, Tail(s), <<>>)

\* re.sub(r'\([^)]*\)', '', s): delete every parenthesised group, left to right
RECURSIVE StripParens(_)
StripParens(s) ==
    IF s = <<>> THEN <<>>
    ELSE IF Head(s) = 40 /\ \E j \in 2..Len(s) : s[j] = 41
         THEN LET j == CHOOSE j \in 2..Len(s) :
                          s[j] = 41 /\ \A m \in 2..(j - 1) : s[m] # 41
              IN  StripParens(SubSeq(s, j + 1, Len(s)))
         ELSE <<Head(s)>> \o StripParens(Tail(s))

\* s.rsplit('.', 1)[0]: the part before the last '.', all of s when there is none
RSplitDotHead(s) ==
    LET dots == {i \in 1..Len(s) : s[i] = 46}
    IN  IF dots = {} THEN s
        ELSE SubSeq(s, 1, (CHOOSE i \in dots : \A j \in dots : j <= i) - 1)

----------------------------------------------------------------------------
(* DataAgent.analyze_intent *)

\* r'[ㄱ-ㅎㅏ-ㅣ]': Hangul compatibility jamo (consonants, vowels)
JamoClass == (12593..12622) \cup (12623..12643)

\* r'[가-힣]': composed Hangul syllables
SyllableClass == 44032..55203

\* r'[가-힣a-z0-9]'
KeywordClass == SyllableClass \cup (97..122) \cup (48..57)

\* the glyphs of `msg in ['?', '?', '。']`
QuestionMarkGlyphs == {<<63>>, <<12290>>}

\* irrelevant_patterns, each anchored at the start; end: the pattern ends with $
irrelevant_patterns ==
    << [lit |-> <<50504, 45397>>, end |-> FALSE],             \* ^안녕
       [lit |-> <<104, 105>>, end |-> TRUE],                  \* ^hi$
       [lit |-> <<104, 101, 108, 108, 111>>, end |-> TRUE],   \* ^hello$
       [lit |-> <<54764, 47196>>, end |-> FALSE],             \* ^헬로
       [lit |-> <<54616, 51060>>, end |-> TRUE],              \* ^하이$
       [lit |-> <<12622, 12615>>, end |-> FALSE],             \* ^ㅎㅇ
       [lit |-> <<12622, 12615, 12622, 12615>>, end |-> FALSE],
       [lit |-> <<54616, 50948>>, end |-> FALSE],             \* ^하위
       [lit |-> <<54616, 51060, 54616, 51060>>, end |-> FALSE],
       [lit |-> <<50612, 46412>>, end |-> FALSE],             \* ^어때
       [lit |-> <<50612, 46468>>, end |-> FALSE],             \* ^어떄
       [lit |-> <<51096, 51648, 45236>>, end |-> FALSE],      \* ^잘지내
       [lit |-> <<47952, 54644>>, end |-> FALSE],             \* ^뭐해
       [lit |-> <<48165, 47673>>, end |-> FALSE],             \* ^밥먹
       [lit |-> <<51339, 51008>>, end |-> FALSE],             \* ^좋은
       [lit |-> <<44048, 49324>>, end |-> FALSE],             \* ^감사
       [lit |-> <<44256, 47560, 50892>>, end |-> FALSE],      \* ^고마워
       [lit |-> <<12593, 12613>>, end |-> FALSE],             \* ^ㄱㅅ
       [lit |-> <<12595>>, end |-> FALSE] >>                  \* ^ㄳ

\* for pattern in irrelevant_patterns: if re.match(pattern, msg_lower)
MatchesIrrelevant(msg_lower) ==
    \E k \in 1..Len(irrelevant_patterns) :
        ReMatch(Lit(irrelevant_patterns[k].lit), irrelevant_patterns[k].end, msg_lower)

\* meaningless_patterns: ^[...]+$ over three character classes
meaningless_patterns ==
    << {50500, 50612, 51020, 12623, 12627, 12641} \cup WhiteSpace,
       JamoClass \cup WhiteSpace,
       {12593, 12596, 12599, 12601, 12609, 12610, 12613, 12615, 12616,
        12618, 12619, 12620, 12621, 12622} >>

\* for pattern in meaningless_patterns: if re.match(pattern, msg)
MatchesMeaningless(msg) ==
    \E k \in 1..Len(meaningless_patterns) :
        ReMatch(<<Plus(meaningless_patterns[k])>>, TRUE, msg)

\* len(re.findall(r'[jamo]', msg))
jamo_count(msg) == Cardinality({i \in 1..Len(msg) : msg[i] \in JamoClass})

\* re.search(r'[가-힣]{2,}', msg)
HasSyllableWord(msg) ==
    \E i \in 1..(Len(msg) - 1) : msg[i] \in SyllableClass /\ msg[i + 1] \in SyllableClass

analysis_keywords ==
    << <<54217, 44512>>, <<52572, 45824>>, <<52572, 49548>>, <<54633, 44228>>,
       <<44060, 49688>>, <<48516, 54252>>, <<52628, 51060>>, <<48708, 44368>>,
       <<48516, 49437>>, <<51312, 54924>>, <<44160, 49353>>, <<47751>>,
       <<50620, 47560>>, <<50616, 51228>>, <<50612, 46356>>, <<50612, 46500>>,
       <<52509>>, <<51204, 52404>>, <<49345, 50948>>, <<54616, 50948>>,
       <<47566, 51008>>, <<51201, 51008>>, <<45458, 51008>>, <<45230, 51008>>,
       <<53356>>, <<51089>>, <<51613, 44032>>, <<44048, 49548>>,
       <<48320, 54868>>, <<52264, 51060>> >>

\* filename_keywords of the metadata
filename_keywords(md) == FindAllRuns(KeywordClass, Lower(RSplitDotHead(md.filename)), <<>>)

\* column_keywords of the metadata
column_keywords(md) ==
    Concat([c \in 1..Len(md.columns) |->
                FindAllRuns(KeywordClass, StripParens(Lower(md.columns[c])), <<>>)])

\* any(keyword in msg_lower for keyword in kws if len(keyword) >= 2)
HasKeywordMatch(kws, msg_lower) ==
    \E k \in 1..Len(kws) : Len(kws[k]) >= 2 /\ Contains(msg_lower, kws[k])

\* the `if metadata:` block returns "unrelated_to_data"
UnrelatedToData(msg, msg_lower, md) ==
    /\ md # NoMetadata
    /\ ~HasKeywordMatch(filename_keywords(md), msg_lower)
    /\ ~HasKeywordMatch(column_keywords(md), msg_lower)
    /\ ~\E k \in 1..Len(analysis_keywords) : Contains(msg, analysis_keywords[k])

\* explanation_patterns, searched anywhere in msg
explanation_patterns ==
    << [pat |-> <<One({51060}), Opt({44148}), Star(WhiteSpace), One({47952})>>, end |-> FALSE],
       [pat |-> <<One({51060}), Opt({44172}), Star(WhiteSpace), One({47956})>>, end |-> FALSE],
       [pat |-> <<One({51200}), Opt({44148}), Star(WhiteSpace), One({47956})>>, end |-> FALSE],
       [pat |-> Lit(<<47952, 50556>>) \o <<Opt({63})>>, end |-> TRUE],
       [pat |-> Lit(<<47956, 51648>>) \o <<Opt({63})>>, end |-> TRUE],
       [pat |-> Lit(<<50612, 46500>>) \o <<Star(WhiteSpace)>> \o Lit(<<45936, 51060, 53552>>),
        end |-> FALSE],
       [pat |-> Lit(<<50612, 46500>>) \o <<Star(WhiteSpace)>> \o Lit(<<51221, 48372>>),
        end |-> FALSE],
       [pat |-> Lit(<<49444, 47749>>), end |-> FALSE],
       [pat |-> Lit(<<50508, 47140, 51480>>), end |-> FALSE],
       [pat |-> Lit(<<47960, 44620>>), end |-> FALSE] >>

\* for pattern in explanation_patterns: if re.search(pattern, msg)
MatchesExplanation(msg) ==
    \E k \in 1..Len(explanation_patterns) :
        ReSearch(explanation_patterns[k].pat, explanation_patterns[k].end, msg)

meta_keywords ==
    << <<52972, 47100>>, <<50676>>, <<99, 111, 108, 117, 109, 110>>, <<54596, 46300>>,
       <<45936, 51060, 53552, 32, 51333, 47448>>, <<50612, 46500, 32, 51221, 48372>> >>

\* any(keyword in msg for keyword in meta_keywords)
HasMetaKeyword(msg) == \E k \in 1..Len(meta_keywords) : Contains(msg, meta_keywords[k])

\* the length test accepting one code point only
TooShortOne(msg) == Len(msg) <= 1

\* the length test that opens analyze_intent: len(msg) <= 2
TooShort(msg) == Len(msg) <= 2

\* a classifier that skips rules and has another default than "query"
analyze_intent_no_default(user_message, md) ==
    LET msg == Strip(user_message)
        msg_lower == Lower(msg)
    IN  IF TooShort(msg) THEN "meaningless"
        ELSE IF MatchesIrrelevant(msg_lower) THEN "irrelevant"
        ELSE IF MatchesMeaningless(msg) \/ jamo_count(msg) >= 1 THEN "meaningless"
        ELSE IF MatchesExplanation(msg) THEN "explanation"
        ELSE IF HasMetaKeyword(msg) THEN "metadata"
        ELSE "ambiguous"

\* a classifier that tests the explanation patterns and the metadata keywords
\* before the keywords of the dataset
analyze_intent_unrelated_last(user_message, md) ==
    LET msg == Strip(user_message)
        msg_lower == Lower(msg)
    IN  IF TooShort(msg) THEN "meaningless"
        ELSE IF msg \in QuestionMarkGlyphs THEN "question_mark"
        ELSE IF MatchesIrrelevant(msg_lower) THEN "irrelevant"
        ELSE IF MatchesMeaningless(msg) THEN "meaningless"
        ELSE IF jamo_count(msg) >= 1 THEN "meaningless"
        ELSE IF Len(msg) >= 3 /\ ~HasSyllableWord(msg) THEN "meaningless"
        ELSE IF MatchesExplanation(msg) THEN "explanation"
        ELSE IF HasMetaKeyword(msg) THEN "metadata"
        ELSE IF UnrelatedToData(msg, msg_lower, md) THEN "unrelated_to_data"
        ELSE "query"

\* analyze_intent(user_message, metadata)
analyze_intent(user_message, md) ==
    LET msg == Strip(user_message)
        msg_lower == Lower(msg)
    IN  IF TooShort(msg) THEN "meaningless"
        ELSE IF msg \in QuestionMarkGlyphs THEN "question_mark"
        ELSE IF MatchesIrrelevant(msg_lower) THEN "irrelevant"
        ELSE IF MatchesMeaningless(msg) THEN "meaningless"
        ELSE IF jamo_count(msg) >= 1 THEN "meaningless"
        ELSE IF Len(msg) >= 3 /\ ~HasSyllableWord(msg) THEN "meaningless"
        ELSE IF UnrelatedToData(msg, msg_lower, md) THEN "unrelated_to_data"
        ELSE IF MatchesExplanation(msg) THEN "explanation"
        ELSE IF HasMetaKeyword(msg) THEN "metadata"
        ELSE "query"

----------------------------------------------------------------------------
(* Text of the language model and SQL text are sequences of lexical tokens  *)
(* (strings): a word, a punctuation mark, the fence markers and the newline.*)
(* A substring test of the code is a test on adjacent tokens.               *)

NL == "NL"                \* "\n"
FenceSql == "FENCE_SQL"   \* the marker ```sql
Fence == "FENCE"         \* the marker ```
LabelCol == "LABELCOL"    \* the column name 표준코드명 that _fix_group_by_issue looks for

\* Optional[str] for a query: None, or the query text
NoSql == [some |-> FALSE, q |-> <<>>]
SomeSql(q) == [some |-> TRUE, q |-> q]

\* tokens that contain the characters ```
HasFence(tok) == tok \in {Fence, FenceSql}

\* str.strip() on tokens: newlines at both ends are dropped
StripTokens(ts) ==
    LET keep == {i \in 1..Len(ts) : ts[i] # NL}
    IN  IF keep = {} THEN <<>>
        ELSE SubSeq(ts, CHOOSE i \in keep : \A j \in keep : i <= j,
                        CHOOSE i \in keep : \A j \in keep : j <= i)

\* re.search(r'```sql\n(.*?)\n```', content, re.DOTALL): the pairs (i, j) such that
\* the opening fence is at i and the closing newline + fence at j
FenceMatches(content) ==
    {ij \in (1..Len(content)) \X (1..Len(content)) :
        /\ content[ij[1]] = FenceSql
        /\ ij[1] + 1 <= Len(content) /\ content[ij[1] + 1] = NL
        /\ ij[2] >= ij[1] + 2
        /\ content[ij[2]] = NL
        /\ ij[2] + 1 <= Len(content) /\ HasFence(content[ij[2] + 1])}

\* sql_match is not None
HasSqlBlock(content) == FenceMatches(content) # {}

\* sql_match.group(1).strip(): leftmost opening fence, shortest body
SqlBlock(content) ==
    LET ms == FenceMatches(content)
        i == CHOOSE i \in {m[1] : m \in ms} : \A m \in ms : i <= m[1]
        j == CHOOSE j \in {m[2] : m \in ms} :
                 /\ <<i, j>> \in ms
                 /\ \A m \in ms : m[1] = i => j <= m[2]
    IN  StripTokens(SubSeq(content, i + 2, j - 1))

\* ai_response.split('```')[-1].strip(): the text after the last fence marker
AfterLastFence(content) ==
    LET fs == {i \in 1..Len(content) : HasFence(content[i])}
    IN  IF fs = {} THEN StripTokens(content)
        ELSE StripTokens(SubSeq(content, (CHOOSE i \in fs : \A j \in fs : j <= i) + 1,
                                Len(content)))

\* token.upper() for the keywords the code looks for in upper case
UpperTok(tok) ==
    CASE tok = "select" -> "SELECT"
      [] tok = "group by" -> "GROUP BY"
      [] OTHER -> tok

\* sql_query.split('\n')
RECURSIVE SplitLines(_, _)
SplitLines(ts, cur) ==
    IF ts = <<>> THEN <<cur>>
    ELSE IF Head(ts) = NL THEN <<cur>> \o SplitLines(Tail(ts), <<>>)
    ELSE SplitLines(Tail(ts), Append(cur, Head(ts)))

\* '\n'.join(lines)
RECURSIVE JoinLines(_)
JoinLines(ls) ==
    IF ls = <<>> THEN <<>>
    ELSE IF Len(ls) = 1 THEN ls[1]
    ELSE ls[1] \o <<NL>> \o JoinLines(Tail(ls))

\* `kw in line.upper()`
LineHasUpper(line, kw) == \E i \in 1..Len(line) : UpperTok(line[i]) = kw

\* `kw in line`
LineHas(line, kw) == \E i \in 1..Len(line) : line[i] = kw

\* 'GROUP BY' in sql_query.upper()
HasGroupBy(q) == LineHasUpper(q, "GROUP BY")

\* line.replace('표준코드명,', 'ANY_VALUE(표준코드명) AS 표준코드명,'): every occurrence
\* of the column directly followed by a comma is rewritten
RECURSIVE ReplaceLabelComma(_)
ReplaceLabelComma(line) ==
    IF line = <<>> THEN <<>>
    ELSE IF Len(line) >= 2 /\ line[1] = LabelCol /\ line[2] = ","
         THEN <<"ANY_VALUE(", LabelCol, ")", "AS", LabelCol, ",">>
              \o ReplaceLabelComma(SubSeq(line, 3, Len(line)))
         ELSE <<Head(line)>> \o ReplaceLabelComma(Tail(line))

\* the loop body without the test for an aggregate already applied
FixLineUnguarded(lines, i, in_final_select) ==
    LET hi == IF i + 9 < Len(lines) THEN i + 9 ELSE Len(lines)
        gbs == {j \in i..hi : LineHasUpper(lines[j], "GROUP BY")}
    IN  IF in_final_select /\ LineHas(lines[i], LabelCol) /\ gbs # {}
        THEN ReplaceLabelComma(lines[i])
        ELSE lines[i]

\* the body of the loop of _fix_group_by_issue for line i (1-based here),
\* given the lines and whether the final SELECT has been seen
FixLine(lines, i, in_final_select) ==
    LET line == lines[i]
        hi == IF i + 9 < Len(lines) THEN i + 9 ELSE Len(lines)
        gbs == {j \in i..hi : LineHasUpper(lines[j], "GROUP BY")}
    IN  IF /\ in_final_select
           /\ LineHas(line, LabelCol)
           /\ ~LineHas(line, "ANY_VALUE(")
           /\ ~LineHas(line, "MAX(")
           /\ gbs # {}
           /\ ~LineHas(lines[CHOOSE j \in gbs : \A k \in gbs : j <= k], LabelCol)
        THEN ReplaceLabelComma(line)
        ELSE line

\* in_final_select after looking at lines 1..i: a line holding SELECT in the
\* second half of the query (0-based index > len(lines) // 2) has been seen
InFinalSelect(lines, i) ==
    \E j \in 1..i : LineHasUpper(lines[j], "SELECT") /\ (j - 1) > (Len(lines) \div 2)

\* DataAgent._fix_group_by_issue
fix_group_by_issue(q) ==
    LET lines == SplitLines(q, <<>>)
    IN  JoinLines([i \in 1..Len(lines) |-> FixLine(lines, i, InFinalSelect(lines, i))])

\* the tail of _generate_sql: the block is extracted, stripped and repaired
ExtractSql(content) ==
    IF ~HasSqlBlock(content) THEN NoSql
    ELSE LET q == SqlBlock(content)
         IN  SomeSql(IF HasGroupBy(q) THEN fix_group_by_issue(q) ELSE q)

\* `if not sql_query`: None, or the empty string
NotSql(sql) == ~sql.some \/ sql.q = <<>>

----------------------------------------------------------------------------
(* DataAgent._prepare_chart_data and _determine_chart_type.                 *)
(* A query result is [keys: the column names in projection order,           *)
(* rows: one sequence of cells per row]; a cell is [t: its Python type,     *)
(* v: its value].                                                           *)

IntCell(n) == [t |-> "int", v |-> n]
StrCell(n) == [t |-> "str", v |-> n]

\* isinstance(val, (int, float)): bool is a subclass of int
IsNumber(cell) == cell.t \in {"int", "float", "bool"}

\* Optional[Dict] for a chart: None
NoChart == [some |-> FALSE, labels |-> <<>>, datasets |-> <<>>, chart_type |-> "none"]

RECURSIVE SumSeq(_)
SumSeq(xs) == IF xs = <<>> THEN 0 ELSE Head(xs) + SumSeq(Tail(xs))

\* any(kw in s for kw in kws)
ContainsAny(s, kws) == \E kw \in kws : Contains(s, kw)

PieWords == {<<54028, 51060>>, <<112, 105, 101>>, <<50896, 44536, 47000, 54532>>}
LineWords == {<<46972, 51064>>, <<108, 105, 110, 101>>, <<49440>>, <<44734, 51008, 49440>>}
BarWords == {<<47561, 45824>>, <<98, 97, 114>>, <<48148>>}
AreaWords == {<<50689, 50669>>, <<97, 114, 101, 97>>}

time_patterns ==
    {<<45216, 51676>>, <<51068, 51088>>, <<50900>>, <<45380>>, <<49884, 44036>>,
     <<100, 97, 116, 101>>, <<116, 105, 109, 101>>, <<109, 111, 110, 116, 104>>,
     <<121, 101, 97, 114>>, <<100, 97, 121>>}

percentage_patterns ==
    {<<48708, 50984>>, <<51216, 50976>>, <<48516, 54252>>, <<44396, 49457>>,
     <<48516, 47448>>, <<114, 97, 116, 105, 111>>, <<115, 104, 97, 114, 101>>,
     <<100, 105, 115, 116, 114, 105, 98, 117, 116, 105, 111, 110>>,
     <<99, 97, 116, 101, 103, 111, 114, 121>>}

aggregation_patterns ==
    {<<44148, 49688>>, <<44060, 49688>>, <<49688, 47049>>, <<99, 111, 117, 110, 116>>,
     <<115, 117, 109>>, <<54633, 44228>>}

\* the chart type the user asked for in words, "" when the if/elif chain returns nothing
ExplicitChartType(user_msg_lower, num_datasets) ==
    IF ContainsAny(user_msg_lower, PieWords)
    THEN (IF num_datasets = 1 THEN "pie" ELSE "")
    ELSE IF ContainsAny(user_msg_lower, LineWords) THEN "line"
    ELSE IF ContainsAny(user_msg_lower, BarWords) THEN "bar"
    ELSE IF ContainsAny(user_msg_lower, AreaWords) THEN "area"
    ELSE ""

\* sum(ds['data']) of every dataset; the averages divide each by the same row count
DataSums(datasets) == [i \in 1..Len(datasets) |-> SumSeq([k \in 1..Len(datasets[i].data) |-> datasets[i].data[k].v])]

MaxOf(xs) == CHOOSE x \in Range(xs) : \A y \in Range(xs) : y <= x
MinOf(xs) == CHOOSE x \in Range(xs) : \A y \in Range(xs) : x <= y

\* max_avg / min_avg raises ZeroDivisionError
ScaleRaises(datasets) == MinOf(DataSums(datasets)) = 0

\* max_avg / min_avg > 10, the averages having the same positive denominator
ScaleDiffers(datasets) ==
    LET mx == MaxOf(DataSums(datasets))
        mn == MinOf(DataSums(datasets))
    IN  mn > 0 /\ mx > 10 * mn

\* an inference that looks at the scale of the datasets and at the pie rule
\* before it looks at the time patterns
InferredChartTypeTimeLast(num_labels, datasets, first_column_name) ==
    LET num_datasets == Len(datasets)
        col == Lower(first_column_name)
    IN  IF /\ num_labels <= 10 /\ num_datasets = 1
           /\ (ContainsAny(col, percentage_patterns) \/ ContainsAny(col, aggregation_patterns))
        THEN "pie"
        ELSE IF num_datasets >= 2 /\ ScaleRaises(datasets) THEN "raise"
        ELSE IF num_datasets >= 2 /\ ScaleDiffers(datasets) THEN "combo"
        ELSE IF ContainsAny(col, time_patterns)
        THEN (IF num_datasets = 1 THEN "area" ELSE "line")
        ELSE "bar"

\* the inference part of _determine_chart_type: "raise" stands for ZeroDivisionError
InferredChartType(num_labels, datasets, first_column_name) ==
    LET num_datasets == Len(datasets)
        col == Lower(first_column_name)
        is_time_series == ContainsAny(col, time_patterns)
    IN  IF /\ num_labels <= 10 /\ num_datasets = 1 /\ ~is_time_series
           /\ (ContainsAny(col, percentage_patterns) \/ ContainsAny(col, aggregation_patterns))
        THEN "pie"
        ELSE IF is_time_series THEN (IF num_datasets = 1 THEN "area" ELSE "line")
        ELSE IF num_datasets >= 2 /\ ScaleRaises(datasets) THEN "raise"
        ELSE IF num_datasets >= 2 /\ ScaleDiffers(datasets) THEN "combo"
        ELSE "bar"

\* DataAgent._determine_chart_type
determine_chart_type(labels, datasets, first_column_name, user_message) ==
    LET explicit == ExplicitChartType(Lower(user_message), Len(datasets))
    IN  IF explicit # "" THEN explicit
        ELSE InferredChartType(Len(labels), datasets, first_column_name)

\* datasets that keep the values collected before the first value that is
\* not a number
NumericDatasetsPrefix(result) ==
    LET Prefix(c) == {n \in 0..Len(result.rows) :
                        \A r \in 1..n : IsNumber(result.rows[r][c])}
        Most(c) == CHOOSE n \in Prefix(c) : \A k \in Prefix(c) : k <= n
        Pick[c \in 1..(Len(result.keys) + 1)] ==
            IF c > Len(result.keys) THEN <<>>
            ELSE (IF Most(c) > 0
                  THEN << [label |-> result.keys[c],
                           data |-> [r \in 1..Most(c) |-> result.rows[r][c]],
                           type |-> ""] >>
                  ELSE <<>>) \o Pick[c + 1]
    IN  Pick[2]

\* the datasets of _prepare_chart_data: every column after the first whose
\* values are all numbers
NumericDatasets(result) ==
    LET cols == {c \in 2..Len(result.keys) :
                    \A r \in 1..Len(result.rows) : IsNumber(result.rows[r][c])}
        Pick[c \in 1..(Len(result.keys) + 1)] ==
            IF c > Len(result.keys) THEN <<>>
            ELSE (IF c \in cols
                  THEN << [label |-> result.keys[c],
                           data |-> [r \in 1..Len(result.rows) |-> result.rows[r][c]],
                           type |-> ""] >>
                  ELSE <<>>) \o Pick[c + 1]
    IN  Pick[2]

\* the secondary kind tags a combo chart writes into the datasets
TagCombo(datasets) ==
    [i \in 1..Len(datasets) |->
        [datasets[i] EXCEPT !.type = IF i > 1 THEN "line" ELSE "bar"]]

\* DataAgent._prepare_chart_data; chart_type "raise" stands for the exception
\* that leaves _determine_chart_type
prepare_chart_data(result, user_message) ==
    IF Len(result.rows) = 0 \/ Len(result.keys) < 2 THEN NoChart
    ELSE LET labels == [r \in 1..Len(result.rows) |-> StrCell(result.rows[r][1].v)]
             datasets == NumericDatasets(result)
         IN  IF datasets = <<>> THEN NoChart
             ELSE LET ct == determine_chart_type(labels, datasets, result.keys[1],
                                                 user_message)
                  IN  [some |-> TRUE, labels |-> labels,
                       datasets |-> IF ct = "combo" THEN TagCombo(datasets) ELSE datasets,
                       chart_type |-> ct]

\* the test that guards the chart in _process_result and generate_response
ChartableSize(result) == Len(result.rows) > 0 /\ Len(result.rows) <= 100

----------------------------------------------------------------------------
(* Datasets (FileMetadata) used by the harness and by the message runs. *)

\* FileMetadata of a weather file: filename "data_2024.csv",
\* columns "일자" and "온도(섭씨)"
WeatherFile ==
    [file_id |-> "f1",
     filename |-> <<100, 97, 116, 97, 95, 50, 48, 50, 52, 46, 99, 115, 118>>,
     columns |-> << <<51068, 51088>>, <<50728, 46020, 40, 49453, 50472, 41>> >>]

\* FileService.get_file_by_id: the metadata of a stored file, NoMetadata for None
get_file_by_id(file_id) == IF file_id = WeatherFile.file_id THEN WeatherFile ELSE NoMetadata

----------------------------------------------------------------------------
(* Values of the message runs. *)

Sides == {"A", "B"}

\* request.chat_id of a stored conversation, and the value uuid.uuid4() yields
GivenChat == "c1"
NewChat == "u1"
ChatIds == {GivenChat, NewChat}

\* a message content: kind names the template the code filled in, body the
\* tokens or questions put into it, text a user's words, n a row count
Content(kind, body, n) == [kind |-> kind, body |-> body, text |-> <<>>, n |-> n]

\* ChatMessage(role="user", content=request.message)
UserTurn(message) ==
    [role |-> "user",
     content |-> [kind |-> "user", body |-> <<>>, text |-> message, n |-> 0],
     sql_query |-> NoSql, chart_data |-> NoChart]

\* ChatMessage(role="assistant", content=..., sql_query=..., chart_data=...)
AssistantTurn(content, sql, chart) ==
    [role |-> "assistant", content |-> content, sql_query |-> sql, chart_data |-> chart]

\* a chat_history document: find_one returns None when exists is FALSE
NoChatDoc == [exists |-> FALSE, messages |-> <<>>]
ChatDoc(messages) == [exists |-> TRUE, messages |-> messages]

\* a conversation of k earlier exchanges, as the streaming handler stores them
RECURSIVE StoredHistory(_)
StoredHistory(k) ==
    IF k = 0 THEN <<>>
    ELSE StoredHistory(k - 1)
         \o << UserTurn(<<50728, 46020, 48 + k>>),
               AssistantTurn(Content("llm_text", <<"earlier", "answer">>, k), NoSql, NoChart) >>

\* a suggested_questions document of the dataset
NoPoolDoc == [exists |-> FALSE, questions |-> <<>>]
PoolDoc(questions) == [exists |-> TRUE, questions |-> questions]

\* question strings a pool can hold
PoolQuestions == <<"q1", "q2", "q3", "q4", "q5", "q6", "q7", "q8">>

\* the default questions of get_cached_suggestions
CachedDefaults == <<"d1:columns[0]", "d2", "d3", "d4">>

\* the questions used when the language model's answer is not JSON
ParseFailDefaults == <<"p1", "p2:columns[0]", "p3", "p4">>

\* the questions generate_suggested_questions returns from its except clause
ErrorDefaults == <<"e1", "e2", "e3", "e4">>

\* Optional[List[str]]: None
NoSuggested == [some |-> FALSE, items |-> <<>>]
Suggested(items) == [some |-> TRUE, items |-> items]

\* random.sample(questions, 4): four positions of the list; the order in which
\* the sample lists them is not modelled
Sample4(questions) ==
    LET n == Len(questions)
    IN  UNION {UNION {UNION {{<<questions[a], questions[b], questions[c], questions[d]>> :
                                 d \in (c + 1)..n} :
                             c \in (b + 1)..n} :
                      b \in (a + 1)..n} :
               a \in 1..n}

\* the choice of suggestions without the limit of four
SampleOrAllUnlimited(questions) == {questions}

\* the values `random.sample(questions, 4) if len(questions) >= 4 else questions`
SampleOrAll(questions) ==
    IF Len(questions) >= 4 THEN Sample4(questions) ELSE {questions}

\* answers of the language model to the SQL prompt
LlmNoBlock == <<"which", "column", "do", "you", "mean", "?">>
LlmPlainBlock ==
    <<"here", FenceSql, NL, "SELECT", "*", "FROM", "data", NL, Fence, NL,
      "the", "rows", "of", "the", "data">>
LlmGroupBlock ==
    <<FenceSql, NL,
      "WITH", "t", "AS", "(", NL,
      "SELECT", "*", "FROM", "data", NL,
      ")", NL,
      "SELECT", LabelCol, ",", "AVG(", "temp", ")", NL,
      "FROM", "t", "GROUP BY", "month", NL, Fence, NL, "ok">>
LlmContents == {LlmNoBlock, LlmPlainBlock, LlmGroupBlock}

\* results of the query engine
EmptyResult == [keys |-> <<>>, rows |-> <<>>]
MonthTemp ==
    [keys |-> << <<109, 111, 110, 116, 104>>, <<116, 101, 109, 112>> >>,
     rows |-> << <<StrCell(1), IntCell(5)>>, <<StrCell(2), IntCell(25)>> >>]
RegionZero ==
    [keys |-> << <<114, 101, 103, 105, 111, 110>>, <<97>>, <<98>> >>,
     rows |-> << <<StrCell(1), IntCell(3), IntCell(0)>>,
                 <<StrCell(2), IntCell(4), IntCell(0)>> >>]
EngineResults == {EmptyResult, MonthTemp, RegionZero}

\* answers of the language model to the suggestion prompt, after json.loads:
\* a list, another JSON value, or text that is not JSON
SuggestAnswers ==
    {[parsed |-> "list", list |-> <<"n1", "n2", "n3", "n4">>],
     [parsed |-> "list", list |-> <<"n1", "q1", "n1", "n2", "n3">>],
     [parsed |-> "list", list |-> <<"n1">>],
     [parsed |-> "other", list |-> <<>>],
     [parsed |-> "bad", list |-> <<>>]}

\* messages submitted in the runs:
\*   "hi", "?", "ㅇㅇ", "안녕하세요", "점심 메뉴", "온도 설명", "온도 컬럼", "평균온도", "네"
RunMessages ==
    { <<104, 105>>, <<63>>, <<12615, 12615>>,
      <<50504, 45397, 54616, 49464, 50836>>,
      <<51216, 49900, 32, 47700, 45684>>,
      <<50728, 46020, 32, 49444, 47749>>,
      <<50728, 46020, 32, 52972, 47100>>,
      <<54217, 44512, 50728, 46020>>,
      <<45348>> }

Requests ==
    [handler : {"stream", "sync"}, file_id : {"f1", "missing"},
     chat_id : {GivenChat, None}, message : RunMessages]

NoRequest == [handler |-> "none", file_id |-> "none", chat_id |-> None, message |-> <<>>]

\* an answer not given yet, per collaborator call
NoResp ==
    [llm_sql     |-> [asked |-> FALSE, raised |-> FALSE, content |-> <<>>],
     llm_answer  |-> [asked |-> FALSE, raised |-> FALSE, content |-> <<>>],
     llm_suggest |-> [asked |-> FALSE, raised |-> FALSE, parsed |-> "bad", list |-> <<>>],
     engine      |-> [asked |-> FALSE, raised |-> FALSE, result |-> EmptyResult],
     sample      |-> [asked |-> FALSE, raised |-> FALSE, result |-> EmptyResult],
     pool_store  |-> [asked |-> FALSE, raised |-> FALSE],
     chat_store  |-> [asked |-> FALSE, raised |-> FALSE]]

\* the answers a collaborator can give to a call: the answer it gave to the same
\* call of the compared run, or any of `fresh`
Answers(kind, fresh) == IF resp[kind].asked THEN {resp[kind]} ELSE fresh

LlmSqlAnswers ==
    Answers("llm_sql",
            {[asked |-> TRUE, raised |-> TRUE, content |-> <<>>]}
            \cup {[asked |-> TRUE, raised |-> FALSE, content |-> c] : c \in LlmContents})

LlmAnswerAnswers ==
    Answers("llm_answer",
            {[asked |-> TRUE, raised |-> TRUE, content |-> <<>>],
             [asked |-> TRUE, raised |-> FALSE, content |-> <<"the", "average", "is", "15">>]})

LlmSuggestAnswers ==
    Answers("llm_suggest",
            {[asked |-> TRUE, raised |-> TRUE, parsed |-> "bad", list |-> <<>>]}
            \cup {[asked |-> TRUE, raised |-> FALSE, parsed |-> a.parsed, list |-> a.list] :
                     a \in SuggestAnswers})

EngineAnswers ==
    Answers("engine",
            {[asked |-> TRUE, raised |-> TRUE, result |-> EmptyResult]}
            \cup {[asked |-> TRUE, raised |-> FALSE, result |-> r] : r \in EngineResults})

SampleAnswers ==
    Answers("sample",
            {[asked |-> TRUE, raised |-> TRUE, result |-> EmptyResult],
             [asked |-> TRUE, raised |-> FALSE, result |-> EmptyResult],
             [asked |-> TRUE, raised |-> FALSE, result |-> MonthTemp]})

PoolStoreAnswers ==
    Answers("pool_store", {[asked |-> TRUE, raised |-> b] : b \in BOOLEAN})

ChatStoreAnswers ==
    Answers("chat_store", {[asked |-> TRUE, raised |-> b] : b \in BOOLEAN})

NoContent == Content("none", <<>>, 0)

\* the locals before the handler has assigned them
NoLoc ==
    [chat_id |-> None, file |-> NoMetadata, messages |-> <<>>, history |-> <<>>,
     via |-> "none", intent |-> NotYet, is_chart_request |-> FALSE,
     response |-> NoContent, sql |-> NoSql, chart |-> NoChart, suggested |-> NoSuggested,
     ai_response |-> <<>>, result |-> EmptyResult, in_pq |-> FALSE, exc |-> "",
     visited |-> <<>>, sent |-> <<>>]

NoOutcome ==
    [status |-> "pending", exc |-> "", content |-> NoContent, sql |-> NoSql,
     chart |-> NoChart, suggested |-> NoSuggested]

NoPrev ==
    [valid |-> FALSE, req |-> NoRequest, loc |-> NoLoc, log |-> <<>>,
     outcome |-> NoOutcome, chat |-> NoChatDoc]

\* log entries
Status(name) == [t |-> "status", name |-> name, arg |-> NoSql]
Final(name) == [t |-> name, name |-> name, arg |-> NoSql]
Call(name) == [t |-> "call", name |-> name, arg |-> NoSql]
CallWith(name, sql) == [t |-> "call", name |-> name, arg |-> sql]

----------------------------------------------------------------------------
(* The agent's helpers used by the message runs. *)

\* agent_service.py imports log_event only: the name `logger` that the except
\* clause of _execute_sql uses is not defined in the module
LoggerDefined == FALSE

\* len() of a text given as words: the words and one separator between them
RECURSIVE TextLen(_)
TextLen(ts) ==
    IF ts = <<>> THEN 0
    ELSE (IF Head(ts) = NL THEN 0 ELSE Len(Head(ts)))
         + (IF Len(ts) > 1 THEN 1 ELSE 0) + TextLen(Tail(ts))

\* conversation_history = [{"role": msg.role, "content": msg.content} for msg in messages]
ConversationHistory(messages) ==
    [i \in 1..Len(messages) |-> [role |-> messages[i].role, content |-> messages[i].content]]

\* conversation_history[-3:]
RecentTurns == 3

\* a window that holds the whole conversation
RecentHistoryAll(history) == history

\* conversation_history[-3:]; None and the empty list give no turns
RecentHistory(history) ==
    IF Len(history) <= RecentTurns THEN history
    ELSE SubSeq(history, Len(history) - RecentTurns + 1, Len(history))

\* create_system_prompt: the schema and, of the conversation, the lines of
\* history_context
create_system_prompt(file, history) ==
    [kind |-> "system", body |-> RecentHistory(history), text |-> <<>>,
     n |-> Len(file.columns)]

\* the list `messages` of _generate_sql and generate_sql: the system prompt,
\* the recent turns, the prompt that holds the user's text
LlmMessages(user_message, file, history) ==
    << [role |-> "system", content |-> create_system_prompt(file, history)] >>
    \o RecentHistory(history)
    \o << [role |-> "user",
           content |-> [kind |-> "prompt", body |-> <<>>, text |-> user_message, n |-> 0]] >>

\* a lookup that answers with nothing when no pool is stored
get_cached_suggestions_no_default(file, stored, fails) ==
    IF fails \/ ~stored.exists THEN {<<>>}
    ELSE SampleOrAll(stored.questions)

\* DataAgent.get_cached_suggestions: the lists it can return for the stored
\* pool document; `fails` is a store whose call raises
get_cached_suggestions(file, stored, fails) ==
    IF fails \/ (file.columns = <<>> /\ ~stored.exists) THEN {<<>>}
    ELSE IF stored.exists THEN SampleOrAll(stored.questions)
    ELSE {CachedDefaults}

\* DataAgent.handle_metadata
handle_metadata(file) == Content("metadata", <<>>, Len(file.columns))

\* DataAgent.handle_explanation for an answer of the engine to the sample query
handle_explanation(file, answer) ==
    IF answer.raised THEN Content("explanation_fallback", <<>>, Len(file.columns))
    ELSE Content("explanation_sample", <<>>, Len(answer.result.rows))

\* DataAgent._process_result; kind "raise" stands for the exception that
\* leaves _prepare_chart_data
process_result(query_result, ai_response, user_message) ==
    LET chart == IF ChartableSize(query_result)
                 THEN prepare_chart_data(query_result, user_message) ELSE NoChart
        tail == AfterLastFence(ai_response)
        short == tail = <<>> \/ TextLen(tail) < 10
        body == IF short THEN <<"DEFAULT_ANALYSIS">> ELSE tail
        kind == IF Len(query_result.rows) > 0 THEN "answer_with_summary" ELSE "answer"
    IN  IF chart.chart_type = "raise"
        THEN [raised |-> TRUE, content |-> NoContent, chart |-> NoChart]
        ELSE [raised |-> FALSE, content |-> Content(kind, body, Len(query_result.rows)),
              chart |-> chart]

\* the except clause of the query branch of event_generator
ProcessingError(l, exc) ==
    [l EXCEPT !.response = Content("processing_error", <<exc>>, 0),
              !.sql = NoSql, !.chart = NoChart]

\* the query of handle_explanation
SampleQuery == <<"SELECT", "*", "FROM", "data", "LIMIT", "5">>

\* _execute_sql retrying the query once
ExecuteCallsRetry(sql) == <<CallWith("engine", sql), CallWith("engine", sql)>>

\* _execute_sql hands the query to the engine once
ExecuteCalls(sql) == <<CallWith("engine", sql)>>

\* a state of the run's state machine entered
Visit(l, state) == [l EXCEPT !.visited = Append(@, state)]

----------------------------------------------------------------------------
(* Harness for analyze_intent as a pure function: the text and the metadata *)
(* are drawn at Init, Classify applies the function once.                   *)

\* code points the harness builds texts from:
\*   h i H ? 。 space ㅇ 안 녕 몇 열 설 명 온 도
IntentChars ==
    {104, 105, 72, 63, 12290, 32, 12615, 50504, 45397, 47751, 50676, 49444,
     47749, 50728, 46020}

\* every text of at most MaxLen code points over IntentChars
IntentTexts == UNION {[1..n -> IntentChars] : n \in 0..MaxLen}

\* the run variables at rest
RunIdle ==
    /\ pc = "idle"
    /\ side = "A"
    /\ req = NoRequest
    /\ loc = NoLoc
    /\ log = <<>>
    /\ resp = NoResp
    /\ chats = [s \in Sides |-> [c \in ChatIds |-> NoChatDoc]]
    /\ pool = [s \in Sides |-> NoPoolDoc]
    /\ outcome = NoOutcome
    /\ prev = NoPrev

InitIntent ==
    /\ text \in IntentTexts
    /\ meta \in {NoMetadata, WeatherFile}
    /\ intent = NotYet
    /\ arg = NotYet /\ out = NotYet /\ again = NotYet
    /\ RunIdle

\* intent = await agent.analyze_intent(text, meta)
Classify ==
    /\ intent = NotYet
    /\ intent' = analyze_intent(text, meta)
    /\ UNCHANGED <<text, meta, arg, out, again>>
    /\ UNCHANGED runVars

\* a second call of analyze_intent with the same text and metadata
ClassifyAgain ==
    /\ again = NotYet
    /\ again' = analyze_intent(text, meta)
    /\ UNCHANGED <<text, meta, intent, arg, out>>
    /\ UNCHANGED runVars

NextIntent == Classify \/ ClassifyAgain

SpecIntent == InitIntent /\ [][NextIntent]_vars

----------------------------------------------------------------------------
(* Message runs: a request is submitted to one of the two handlers of       *)
(* routers/chat.py, and afterwards the same request is submitted to the     *)
(* other handler of an identical deployment (side B) whose collaborators    *)
(* give the same answers, so that the two variants can be compared.         *)

\* the classifier variables are not used by the message runs
IntentIdle ==
    /\ text = <<>> /\ meta = NoMetadata /\ intent = NotYet
    /\ arg = NotYet /\ out = NotYet /\ again = NotYet

\* chat_history documents stored for GivenChat before the run
InitialChatDocs == {NoChatDoc} \cup {ChatDoc(StoredHistory(k)) : k \in 1..MaxHistPairs}

\* suggested_questions documents stored for the dataset before the run
InitialPools == {NoPoolDoc} \cup {PoolDoc(SubSeq(PoolQuestions, 1, n)) : n \in 0..MaxPool}

Init ==
    /\ IntentIdle
    /\ pc = "idle"
    /\ side = "A"
    /\ req = NoRequest
    /\ loc = NoLoc
    /\ log = <<>>
    /\ resp = NoResp
    /\ \E d \in InitialChatDocs :
          chats = [s \in Sides |-> [c \in ChatIds |-> IF c = GivenChat THEN d ELSE NoChatDoc]]
    /\ \E p \in InitialPools : pool = [s \in Sides |-> p]
    /\ outcome = NoOutcome
    /\ prev = NoPrev

\* a client submits a request
StartRequest ==
    /\ pc = "idle"
    /\ \E r \in Requests : req' = r
    /\ pc' = "begin"
    /\ UNCHANGED <<side, loc, log, resp, chats, pool, outcome, prev>>
    /\ UNCHANGED intentVars

\* chat_id = request.chat_id or str(uuid.uuid4())
ChatIdOf(r) == IF r.chat_id # None THEN r.chat_id ELSE NewChat

\* chat_history.messages after find_one: the stored messages, or none
LoadedMessages(doc) == IF doc.exists THEN doc.messages ELSE <<>>

\* event_generator up to its first yield (chat.py 119-162)
StreamBegin ==
    /\ pc = "begin" /\ req.handler = "stream"
    /\ LET file == get_file_by_id(req.file_id)
           chat_id == ChatIdOf(req)
           messages == LoadedMessages(chats[side][chat_id])
       IN  IF file = NoMetadata
           THEN /\ log' = Append(log, Final("error"))
                /\ outcome' = [NoOutcome EXCEPT !.status = "error", !.exc = "file_not_found"]
                /\ loc' = Visit(loc, "FAILED")
                /\ pc' = "done"
           ELSE /\ loc' = [loc EXCEPT !.file = file, !.chat_id = chat_id, !.via = "stream",
                                      !.history = ConversationHistory(messages),
                                      !.messages = Append(messages, UserTurn(req.message))]
                /\ log' = Append(log, Status("analyzing"))
                /\ outcome' = outcome
                /\ pc' = "s_dispatch"
    /\ UNCHANGED <<side, req, resp, chats, pool, prev>>
    /\ UNCHANGED intentVars

\* analyze_intent and the branch on the intent, up to the branch's yield
\* (chat.py 164-217)
StreamDispatch ==
    /\ pc = "s_dispatch"
    /\ LET i == analyze_intent(req.message, loc.file)
           l == Visit([loc EXCEPT !.intent = i], "ANALYZING")
       IN  CASE i = "irrelevant" ->
                  /\ loc' = [l EXCEPT !.response = Content("greeting", <<>>, 0),
                                      !.sql = NoSql, !.suggested = Suggested(<<>>),
                                      !.chart = NoChart]
                  /\ log' = log
                  /\ pc' = "s_save"
             [] i = "meaningless" ->
                  /\ loc' = l
                  /\ log' = Append(log, Status("suggesting"))
                  /\ pc' = "s_meaningless"
             [] i = "question_mark" ->
                  /\ loc' = l
                  /\ log' = Append(log, Status("question"))
                  /\ pc' = "pq_start"
             [] i = "explanation" ->
                  /\ loc' = l
                  /\ log' = Append(log, Status("explaining"))
                  /\ pc' = "explain"
             [] i = "metadata" ->
                  /\ loc' = l
                  /\ log' = Append(log, Status("metadata"))
                  /\ pc' = "s_metadata"
             [] OTHER ->
                  /\ loc' = l
                  /\ log' = Append(log, Status("generating"))
                  /\ pc' = "s_generate"
    /\ UNCHANGED <<side, req, resp, chats, pool, outcome, prev>>
    /\ UNCHANGED intentVars

\* the meaningless branch after its yield (chat.py 180-183)
StreamMeaningless ==
    /\ pc = "s_meaningless"
    /\ \E a \in PoolStoreAnswers :
         \E s \in get_cached_suggestions(loc.file, pool[side], a.raised) :
            /\ resp' = [resp EXCEPT !.pool_store = a]
            /\ loc' = [loc EXCEPT !.suggested = Suggested(s),
                                  !.response = Content("clarify", s, 0),
                                  !.sql = NoSql, !.chart = NoChart]
    /\ log' = Append(log, Call("pool_find"))
    /\ pc' = "s_save"
    /\ UNCHANGED <<side, req, chats, pool, outcome, prev>>
    /\ UNCHANGED intentVars

\* the metadata branch after its yield (chat.py 209-212)
StreamMetadata ==
    /\ pc = "s_metadata"
    /\ loc' = [loc EXCEPT !.response = handle_metadata(loc.file), !.sql = NoSql,
                          !.suggested = Suggested(<<>>), !.chart = NoChart]
    /\ pc' = "s_save"
    /\ UNCHANGED <<side, req, log, resp, chats, pool, outcome, prev>>
    /\ UNCHANGED intentVars

\* _generate_sql and the test of its result, up to the next yield
\* (chat.py 219-230, 246-250)
StreamGenerate ==
    /\ pc = "s_generate"
    /\ \E a \in LlmSqlAnswers :
         /\ resp' = [resp EXCEPT !.llm_sql = a]
         /\ LET l == [Visit(loc, "GENERATING_QUERY") EXCEPT
                          !.sent = LlmMessages(req.message, loc.file, loc.history)]
                sql == ExtractSql(a.content)
            IN  IF a.raised
                THEN /\ loc' = ProcessingError(l, "LlmError")
                     /\ log' = Append(log, Call("llm"))
                     /\ pc' = "s_suggest"
                ELSE IF NotSql(sql)
                THEN /\ loc' = [l EXCEPT !.sql = sql, !.ai_response = a.content,
                                         !.response = Content("llm_text", a.content, 0),
                                         !.chart = NoChart]
                     /\ log' = Append(log, Call("llm"))
                     /\ pc' = "s_suggest"
                ELSE /\ loc' = [l EXCEPT !.sql = sql, !.ai_response = a.content]
                     /\ log' = log \o <<Call("llm"), Status("executing")>>
                     /\ pc' = "s_execute"
    /\ UNCHANGED <<side, req, chats, pool, outcome, prev>>
    /\ UNCHANGED intentVars

\* _execute_sql and the test of its result, up to the next yield
\* (chat.py 232-240, 246-250; agent_service.py 413-421)
StreamExecute ==
    /\ pc = "s_execute"
    /\ \E a \in EngineAnswers :
         /\ resp' = [resp EXCEPT !.engine = a]
         /\ LET l == Visit(loc, "EXECUTING")
            IN  IF a.raised /\ ~LoggerDefined
                THEN /\ loc' = ProcessingError(l, "NameError")
                     /\ log' = log \o ExecuteCalls(loc.sql)
                     /\ pc' = "s_suggest"
                ELSE IF a.raised
                THEN /\ loc' = [l EXCEPT !.response = Content("lookup_error", <<>>, 0),
                                         !.chart = NoChart]
                     /\ log' = log \o ExecuteCalls(loc.sql)
                     /\ pc' = "s_suggest"
                ELSE /\ loc' = [l EXCEPT !.result = a.result]
                     /\ log' = log \o ExecuteCalls(loc.sql) \o <<Status("summarizing")>>
                     /\ pc' = "s_process"
    /\ UNCHANGED <<side, req, chats, pool, outcome, prev>>
    /\ UNCHANGED intentVars

\* _process_result (chat.py 242-250)
StreamProcess ==
    /\ pc = "s_process"
    /\ LET l == Visit(loc, "SUMMARIZING")
           r == process_result(loc.result, loc.ai_response, req.message)
       IN  loc' = IF r.raised THEN ProcessingError(l, "ZeroDivisionError")
                  ELSE [l EXCEPT !.response = r.content, !.chart = r.chart]
    /\ pc' = "s_suggest"
    /\ UNCHANGED <<side, req, log, resp, chats, pool, outcome, prev>>
    /\ UNCHANGED intentVars

\* suggested = await agent.get_cached_suggestions(file_metadata) (chat.py 253)
StreamSuggest ==
    /\ pc = "s_suggest"
    /\ \E a \in PoolStoreAnswers :
         \E s \in get_cached_suggestions(loc.file, pool[side], a.raised) :
            /\ resp' = [resp EXCEPT !.pool_store = a]
            /\ loc' = [loc EXCEPT !.suggested = Suggested(s)]
    /\ log' = Append(log, Call("pool_find"))
    /\ pc' = "s_save"
    /\ UNCHANGED <<side, req, chats, pool, outcome, prev>>
    /\ UNCHANGED intentVars

\* a handler that sends the final payload whatever replace_one did
SaveEventsAlwaysComplete(raised) == <<Call("chat_replace"), Final("complete")>>

\* replace_one and the event that ends the stream: `complete` after the
\* write, `error` from the except clause when the write raised
\* (chat.py 266-293)
SaveEvents(raised) ==
    IF raised THEN <<Call("chat_replace"), Final("error")>>
    ELSE <<Call("chat_replace"), Final("complete")>>

\* the assistant message is appended, the conversation stored and the final
\* payload sent (chat.py 256-293)
StreamSave ==
    /\ pc = "s_save"
    /\ \E a \in ChatStoreAnswers :
         /\ resp' = [resp EXCEPT !.chat_store = a]
         /\ LET ai_message == AssistantTurn(loc.response, loc.sql, loc.chart)
            IN  IF a.raised
                THEN /\ chats' = chats
                     /\ log' = log \o SaveEvents(a.raised)
                     /\ outcome' = [NoOutcome EXCEPT !.status = "error", !.exc = "StoreError"]
                     /\ loc' = Visit(loc, "FAILED")
                ELSE /\ chats' = [chats EXCEPT ![side][loc.chat_id] =
                                     ChatDoc(Append(loc.messages, ai_message))]
                     /\ log' = log \o SaveEvents(a.raised)
                     /\ outcome' = [status |-> "complete", exc |-> "",
                                    content |-> ai_message.content,
                                    sql |-> ai_message.sql_query,
                                    chart |-> ai_message.chart_data,
                                    suggested |-> loc.suggested]
                     /\ loc' = Visit(loc, "DONE")
    /\ pc' = "done"
    /\ UNCHANGED <<side, req, pool, prev>>
    /\ UNCHANGED intentVars

\* send_message up to the call of process_query (chat.py 42-72)
SyncBegin ==
    /\ pc = "begin" /\ req.handler = "sync"
    /\ LET file == get_file_by_id(req.file_id)
           chat_id == ChatIdOf(req)
           messages == LoadedMessages(chats[side][chat_id])
       IN  IF file = NoMetadata
           THEN /\ outcome' = [NoOutcome EXCEPT !.status = "http404", !.exc = "file_not_found"]
                /\ loc' = Visit(loc, "FAILED")
                /\ pc' = "done"
           ELSE /\ loc' = [loc EXCEPT !.file = file, !.chat_id = chat_id, !.via = "sync",
                                      !.messages = Append(messages, UserTurn(req.message))]
                /\ outcome' = outcome
                /\ pc' = "pq_start"
    /\ UNCHANGED <<side, req, log, resp, chats, pool, prev>>
    /\ UNCHANGED intentVars

\* chart_request_patterns of process_query
chart_request_patterns ==
    << [lit |-> <<51025>>, end |-> TRUE],                \* ^응$
       [lit |-> <<45348>>, end |-> TRUE],                \* ^네$
       [lit |-> <<50696>>, end |-> TRUE],                \* ^예$
       [lit |-> <<121, 101, 115>>, end |-> TRUE],        \* ^yes$
       [lit |-> <<52264, 53944>>, end |-> FALSE],        \* ^차트
       [lit |-> <<44536, 47000, 54532>>, end |-> FALSE], \* ^그래프
       [lit |-> <<49884, 44033, 54868>>, end |-> FALSE] >>  \* ^시각화

\* any(re.match(pattern, user_message.strip().lower()) for pattern in ...)
is_chart_request(user_message) ==
    \E k \in 1..Len(chart_request_patterns) :
        ReMatch(Lit(chart_request_patterns[k].lit), chart_request_patterns[k].end,
                Lower(Strip(user_message)))

\* the return statements of process_query that carry suggestions (lines 705-710
\* and 717-722): the text depends on the intent
SuggestionReturn(l, suggested) ==
    [l EXCEPT !.response = Content(IF l.intent = "question_mark"
                                   THEN "what_are_you_curious_about"
                                   ELSE "what_do_you_mean", suggested, 0),
              !.sql = NoSql, !.suggested = Suggested(suggested), !.chart = NoChart]

\* process_query: the classification and the branch on the intent (lines 694-733)
PQStart ==
    /\ pc = "pq_start"
    /\ LET chart_req == is_chart_request(req.message)
           i == analyze_intent(req.message, NoMetadata)
           l == Visit([loc EXCEPT !.intent = i, !.is_chart_request = chart_req,
                                  !.in_pq = TRUE], "ANALYZING")
       IN  CASE i = "question_mark" ->
                  /\ loc' = l
                  /\ pc' = "gsq_find"
             [] i = "irrelevant" /\ ~chart_req ->
                  /\ loc' = [l EXCEPT !.response = Content("analyst_only", <<>>, 0),
                                      !.sql = NoSql, !.suggested = NoSuggested,
                                      !.chart = NoChart]
                  /\ pc' = "pq_return"
             [] i = "meaningless" /\ ~chart_req ->
                  /\ loc' = l
                  /\ pc' = "gsq_find"
             [] i = "explanation" ->
                  /\ loc' = l
                  /\ pc' = "explain"
             [] i = "metadata" ->
                  /\ loc' = [l EXCEPT !.response = handle_metadata(l.file), !.sql = NoSql,
                                      !.suggested = NoSuggested, !.chart = NoChart]
                  /\ pc' = "pq_return"
             [] OTHER ->
                  /\ loc' = l
                  /\ pc' = "pq_generate"
    /\ UNCHANGED <<side, req, log, resp, chats, pool, outcome, prev>>
    /\ UNCHANGED intentVars

\* handle_explanation, called by the streaming handler (chat.py 199-202) and by
\* process_query (agent_service.py 726-727)
HandleExplanation ==
    /\ pc = "explain"
    /\ \E a \in SampleAnswers :
         /\ resp' = [resp EXCEPT !.sample = a]
         /\ loc' = [loc EXCEPT !.response = handle_explanation(loc.file, a),
                               !.sql = NoSql, !.chart = NoChart,
                               !.suggested = IF loc.in_pq THEN NoSuggested
                                             ELSE Suggested(<<>>)]
    /\ log' = Append(log, CallWith("engine", SomeSql(SampleQuery)))
    /\ pc' = IF loc.in_pq THEN "pq_return" ELSE "s_save"
    /\ UNCHANGED <<side, req, chats, pool, outcome, prev>>
    /\ UNCHANGED intentVars

\* generate_suggested_questions, the lookup of the stored questions (lines 789-804)
GsqFind ==
    /\ pc = "gsq_find"
    /\ \E a \in PoolStoreAnswers :
         /\ resp' = [resp EXCEPT !.pool_store = a]
         /\ LET stored == pool[side]
            IN  IF a.raised
                THEN /\ loc' = SuggestionReturn(loc, ErrorDefaults)
                     /\ pc' = "pq_return"
                ELSE IF stored.exists /\ stored.questions # <<>>
                THEN /\ \E s \in SampleOrAll(stored.questions) :
                           loc' = SuggestionReturn(loc, s)
                     /\ pc' = "pq_return"
                ELSE /\ loc' = loc
                     /\ pc' = "gsq_llm"
    /\ log' = Append(log, Call("pool_find"))
    /\ UNCHANGED <<side, req, chats, pool, outcome, prev>>
    /\ UNCHANGED intentVars

\* new_questions of generate_suggested_questions for a parsed answer (lines 860-873)
NewQuestions(file, a) ==
    CASE a.parsed = "list" /\ a.list # <<>> ->
             SubSeq(a.list, 1, IF Len(a.list) < 4 THEN Len(a.list) ELSE 4)
      [] a.parsed = "bad" -> ParseFailDefaults
      [] OTHER -> <<>>

\* for q in new_questions: if q not in existing_questions: append
RECURSIVE MergeQuestions(_, _)
MergeQuestions(existing, new) ==
    IF new = <<>> THEN existing
    ELSE MergeQuestions(IF \E i \in 1..Len(existing) : existing[i] = Head(new)
                        THEN existing ELSE Append(existing, Head(new)),
                        Tail(new))

\* generate_suggested_questions, the generation and the storing (lines 806-918)
GsqGenerate ==
    /\ pc = "gsq_llm"
    /\ \E a \in LlmSuggestAnswers :
         /\ resp' = [resp EXCEPT !.llm_suggest = a]
         /\ LET stored == pool[side]
                new_questions == NewQuestions(loc.file, a)
                existing_questions == MergeQuestions(stored.questions, new_questions)
            IN  IF a.raised \/ (a.parsed = "bad" /\ loc.file.columns = <<>>)
                THEN /\ loc' = SuggestionReturn(loc, ErrorDefaults)
                     /\ pool' = pool
                     /\ log' = Append(log, Call("llm"))
                ELSE IF stored.exists
                THEN /\ pool' = [pool EXCEPT ![side] = PoolDoc(existing_questions)]
                     /\ \E s \in SampleOrAll(existing_questions) :
                           loc' = SuggestionReturn(loc, s)
                     /\ log' = log \o <<Call("llm"), Call("pool_find"), Call("pool_write")>>
                ELSE /\ pool' = [pool EXCEPT ![side] = PoolDoc(new_questions)]
                     /\ loc' = SuggestionReturn(loc, new_questions)
                     /\ log' = log \o <<Call("llm"), Call("pool_find"), Call("pool_write")>>
    /\ pc' = "pq_return"
    /\ UNCHANGED <<side, req, chats, outcome, prev>>
    /\ UNCHANGED intentVars

\* an exception leaves process_query
Raise(l, exc) == [l EXCEPT !.exc = exc]

\* process_query, the generation of the query (lines 735-738; generate_sql)
PQGenerate ==
    /\ pc = "pq_generate"
    /\ \E a \in LlmSqlAnswers :
         /\ resp' = [resp EXCEPT !.llm_sql = a]
         /\ LET l == [Visit(loc, "GENERATING_QUERY") EXCEPT
                          !.sent = LlmMessages(req.message, loc.file, loc.history)]
                sql == ExtractSql(a.content)
            IN  IF a.raised
                THEN /\ loc' = Raise(l, "LlmError")
                     /\ pc' = "pq_return"
                ELSE IF NotSql(sql)
                THEN /\ loc' = [l EXCEPT !.response = Content("not_understood", <<>>, 0),
                                         !.sql = NoSql, !.suggested = NoSuggested,
                                         !.chart = NoChart]
                     /\ pc' = "pq_return"
                ELSE /\ loc' = [l EXCEPT !.sql = sql]
                     /\ pc' = "pq_execute"
    /\ log' = Append(log, Call("llm"))
    /\ UNCHANGED <<side, req, chats, pool, outcome, prev>>
    /\ UNCHANGED intentVars

\* process_query, the execution of the query (lines 741-745)
PQExecute ==
    /\ pc = "pq_execute"
    /\ \E a \in EngineAnswers :
         /\ resp' = [resp EXCEPT !.engine = a]
         /\ LET l == Visit(loc, "EXECUTING")
            IN  IF a.raised
                THEN /\ loc' = [l EXCEPT !.response = Content("execution_error", <<>>, 0),
                                         !.suggested = NoSuggested, !.chart = NoChart]
                     /\ pc' = "pq_return"
                ELSE /\ loc' = [l EXCEPT !.result = a.result]
                     /\ pc' = "pq_respond"
    /\ log' = Append(log, CallWith("engine", loc.sql))
    /\ UNCHANGED <<side, req, chats, pool, outcome, prev>>
    /\ UNCHANGED intentVars

\* the chart of generate_response (lines 295-300)
ResponseChart(query_result, user_message) ==
    IF query_result.rows # <<>> /\ ChartableSize(query_result)
    THEN prepare_chart_data(query_result, user_message) ELSE NoChart

\* process_query, the answer (lines 748-750; generate_response)
PQRespond ==
    /\ pc = "pq_respond"
    /\ LET l == Visit(loc, "SUMMARIZING")
           chart == ResponseChart(loc.result, req.message)
       IN  IF chart.chart_type = "raise"
           THEN /\ loc' = Raise(l, "ZeroDivisionError")
                /\ log' = log
                /\ resp' = resp
           ELSE \E a \in LlmAnswerAnswers :
                  /\ resp' = [resp EXCEPT !.llm_answer = a]
                  /\ log' = Append(log, Call("llm"))
                  /\ loc' = IF a.raised THEN Raise(l, "LlmError")
                            ELSE [l EXCEPT !.response = Content("llm_text", a.content, 0),
                                           !.suggested = NoSuggested, !.chart = chart]
    /\ pc' = "pq_return"
    /\ UNCHANGED <<side, req, chats, pool, outcome, prev>>
    /\ UNCHANGED intentVars

\* the number of values every return statement of process_query gives
ProcessQueryArity == 4

\* the number of names send_message unpacks them into
SyncUnpackArity == 3

\* the number of names event_generator unpacks them into
StreamUnpackArity == 4

\* process_query returns to the handler that called it: send_message
\* (chat.py 75-109) or the question_mark branch of event_generator (chat.py 190-192)
PQReturn ==
    /\ pc = "pq_return"
    /\ IF loc.via = "stream"
       THEN IF loc.exc = "" /\ ProcessQueryArity = StreamUnpackArity
            THEN /\ loc' = [loc EXCEPT !.in_pq = FALSE]
                 /\ pc' = "s_save"
                 /\ UNCHANGED <<log, resp, chats, outcome>>
            ELSE /\ loc' = Visit(loc, "FAILED")
                 /\ log' = Append(log, Final("error"))
                 /\ outcome' = [NoOutcome EXCEPT !.status = "error",
                                   !.exc = IF loc.exc # "" THEN loc.exc ELSE "ValueError"]
                 /\ pc' = "done"
                 /\ UNCHANGED <<resp, chats>>
       ELSE IF loc.exc = "" /\ ProcessQueryArity = SyncUnpackArity
            THEN \E a \in ChatStoreAnswers :
                   /\ resp' = [resp EXCEPT !.chat_store = a]
                   /\ log' = Append(log, Call("chat_replace"))
                   /\ LET ai_message == AssistantTurn(loc.response, loc.sql, NoChart)
                      IN  IF a.raised
                          THEN /\ chats' = chats
                               /\ outcome' = [NoOutcome EXCEPT !.status = "http500",
                                                               !.exc = "StoreError"]
                               /\ loc' = Visit(loc, "FAILED")
                          ELSE /\ chats' = [chats EXCEPT ![side][loc.chat_id] =
                                               ChatDoc(Append(loc.messages, ai_message))]
                               /\ outcome' = [status |-> "complete", exc |-> "",
                                              content |-> ai_message.content,
                                              sql |-> ai_message.sql_query,
                                              chart |-> ai_message.chart_data,
                                              suggested |-> loc.suggested]
                               /\ loc' = Visit(loc, "DONE")
                   /\ pc' = "done"
            ELSE /\ loc' = Visit(loc, "FAILED")
                 /\ outcome' = [NoOutcome EXCEPT !.status = "http500",
                                   !.exc = IF loc.exc # "" THEN loc.exc ELSE "ValueError"]
                 /\ pc' = "done"
                 /\ UNCHANGED <<log, resp, chats>>
    /\ UNCHANGED <<side, req, pool, prev>>
    /\ UNCHANGED intentVars

\* the handler that was not used
OtherHandler(h) == IF h = "stream" THEN "sync" ELSE "stream"

\* the same request is submitted to the other handler of the second deployment
Resubmit ==
    /\ pc = "done" /\ side = "A"
    /\ prev' = [valid |-> TRUE, req |-> req, loc |-> loc, log |-> log,
                outcome |-> outcome, chat |-> chats[side][ChatIdOf(req)]]
    /\ side' = "B"
    /\ req' = [req EXCEPT !.handler = OtherHandler(@)]
    /\ loc' = NoLoc
    /\ log' = <<>>
    /\ outcome' = NoOutcome
    /\ pc' = "begin"
    /\ UNCHANGED <<resp, chats, pool>>
    /\ UNCHANGED intentVars

Next ==
    \/ StartRequest
    \/ StreamBegin
    \/ StreamDispatch
    \/ StreamMeaningless
    \/ StreamMetadata
    \/ StreamGenerate
    \/ StreamExecute
    \/ StreamProcess
    \/ StreamSuggest
    \/ StreamSave
    \/ SyncBegin
    \/ PQStart
    \/ HandleExplanation
    \/ GsqFind
    \/ GsqGenerate
    \/ PQGenerate
    \/ PQExecute
    \/ PQRespond
    \/ PQReturn
    \/ Resubmit

Spec == Init /\ [][Next]_vars

----------------------------------------------------------------------------
(* Properties. *)

\* the positions of the log that are calls of the given collaborators
CallsTo(l, names) == {k \in 1..Len(l) : l[k].t = "call" /\ l[k].name \in names}

\* the status notifications and final payloads of the log, by position
Notices(l) == {k \in 1..Len(l) : l[k].t # "call"}

\* the document stored for the conversation of the run
StoredChat == chats[side][loc.chat_id]

\* the run found its dataset and the chat store did not fail
RunStored == loc.file # NoMetadata /\ ~resp.chat_store.raised

\* the stored conversation is what the run loaded, its user turn and exactly
\* one assistant turn after it
OneAssistantTurn ==
    /\ StoredChat.exists
    /\ Len(StoredChat.messages) = Len(loc.messages) + 1
    /\ SubSeq(StoredChat.messages, 1, Len(loc.messages)) = loc.messages
    /\ loc.messages[Len(loc.messages)] = UserTurn(req.message)
    /\ StoredChat.messages[Len(StoredChat.messages)].role = "assistant"

\* C1: a run whose intent is not `query` never calls the language model nor
\* the query engine
C1_NonQueryUsesNoCollaborator ==
    loc.intent \notin {NotYet, "query"} => CallsTo(log, {"llm", "engine"}) = {}

\* C2: every finished run that found its dataset, in either handler, leaves
\* the stored conversation with exactly one new assistant turn after the
\* run's user turn
C2_OneTurnPerRun ==
    (pc = "done" /\ RunStored) => OneAssistantTurn

\* C3: when the query engine fails in the streaming run, the final payload
\* and the stored assistant turn carry the query that was sent to the engine
C3_FailedQueryKept ==
    (/\ pc = "done" /\ req.handler = "stream" /\ RunStored
     /\ CallsTo(log, {"engine"}) # {} /\ resp.engine.raised)
    => /\ outcome.status = "complete"
       /\ \A k \in CallsTo(log, {"engine"}) :
             /\ outcome.sql = log[k].arg
             /\ StoredChat.messages[Len(StoredChat.messages)].sql_query = log[k].arg

\* C4: when the language model's answer to the query prompt holds no fenced
\* block, the run ends without error, the whole answer is the assistant's
\* text, the engine is not called and the stored turn has no query, no chart
C4_NoBlockIsAnswer ==
    (/\ pc = "done" /\ RunStored /\ loc.intent = "query"
     /\ CallsTo(log, {"llm"}) # {}
     /\ ~resp.llm_sql.raised /\ ~HasSqlBlock(resp.llm_sql.content))
    => /\ outcome.status = "complete"
       /\ outcome.content = Content("llm_text", resp.llm_sql.content, 0)
       /\ outcome.sql = NoSql /\ outcome.chart = NoChart
       /\ CallsTo(log, {"engine"}) = {}
       /\ OneAssistantTurn
       /\ StoredChat.messages[Len(StoredChat.messages)] =
             AssistantTurn(outcome.content, NoSql, NoChart)

\* the rank of a notification in the order of the states
StateRank(e) ==
    CASE e.name = "analyzing" -> 1
      [] e.name = "generating" -> 2
      [] e.name = "executing" -> 3
      [] e.name = "summarizing" -> 4
      [] OTHER -> 5

\* C5: in a streaming run classified `query` the notifications come in the
\* order analyzing, generating, executing, summarizing, final payload, each at
\* most once; the language model and the engine are called at most once, each
\* after the notification of its state and before that of the next state
C5_QueryStatesInOrder ==
    (req.handler = "stream" /\ loc.intent = "query")
    => /\ \A j, k \in Notices(log) : j < k => StateRank(log[j]) < StateRank(log[k])
       /\ Cardinality(CallsTo(log, {"llm"})) <= 1
       /\ Cardinality(CallsTo(log, {"engine"})) <= 1
       /\ \A k \in CallsTo(log, {"llm"}) :
             /\ \E j \in Notices(log) : j < k /\ log[j].name = "generating"
             /\ \A j \in Notices(log) : j < k => StateRank(log[j]) <= 2
       /\ \A k \in CallsTo(log, {"engine"}) :
             /\ \E j \in Notices(log) : j < k /\ log[j].name = "executing"
             /\ \A j \in Notices(log) : j < k => StateRank(log[j]) <= 3
       /\ (pc = "done" => log[Len(log)].t \in {"complete", "error"})

C5_Witness ==
    /\ pc = "done" /\ req.handler = "stream" /\ loc.intent = "query"
    /\ outcome.status = "complete"
    /\ loc.visited = <<"ANALYZING", "GENERATING_QUERY", "EXECUTING", "SUMMARIZING", "DONE">>
    /\ Cardinality(Notices(log)) = 5
    /\ CallsTo(log, {"llm"}) # {} /\ CallsTo(log, {"engine"}) # {}

\* C6: the same request served by the other handler, with the same stored
\* data and collaborator answers, is classified the same, passes through the
\* same states and ends with the same answer and the same stored turn
C6_VariantsAgree ==
    (pc = "done" /\ prev.valid /\ loc.file # NoMetadata)
    => /\ loc.intent = prev.loc.intent
       /\ loc.visited = prev.loc.visited
       /\ outcome.content = prev.outcome.content
       /\ outcome.sql = prev.outcome.sql
       /\ outcome.chart = prev.outcome.chart
       /\ StoredChat = prev.chat

\* C7: analyze_intent returns "meaningless" for every text of at most two
\* code points, whatever the schema and whatever other rule the text matches
C7_ShortIsMeaningless ==
    (intent # NotYet /\ Len(text) <= 2) => intent = "meaningless"

C7_Witness ==
    /\ intent = "meaningless" /\ text = <<104, 105>> /\ meta = WeatherFile

\* C8: analyze_intent returns "question_mark" for a text that is exactly one
\* question-mark glyph, whatever the schema
C8_GlyphIsQuestionMark ==
    (intent # NotYet /\ text \in QuestionMarkGlyphs) => intent = "question_mark"

\* C9: a streaming run whose text matches a pattern of irrelevant_patterns
\* ("hi" among them) is classified "irrelevant" and answered with the fixed
\* greeting
C9_GreetingIsIrrelevant ==
    (/\ pc = "done" /\ req.handler = "stream" /\ outcome.status = "complete"
     /\ MatchesIrrelevant(Lower(Strip(req.message))))
    => /\ loc.intent = "irrelevant"
       /\ outcome.content = Content("greeting", <<>>, 0)

\* the suggestions of the final payload
SuggestedItems == outcome.suggested.items

Intents ==
    {"irrelevant", "meaningless", "question_mark", "unrelated_to_data",
     "explanation", "metadata", "query"}

\* one of the rules analyze_intent tries before its default matches the text
EarlierRuleMatches(user_message, md) ==
    LET msg == Strip(user_message)
        msg_lower == Lower(msg)
    IN  \/ Len(msg) <= 2
        \/ msg \in QuestionMarkGlyphs
        \/ MatchesIrrelevant(msg_lower)
        \/ MatchesMeaningless(msg)
        \/ jamo_count(msg) >= 1
        \/ (Len(msg) >= 3 /\ ~HasSyllableWord(msg))
        \/ UnrelatedToData(msg, msg_lower, md)
        \/ MatchesExplanation(msg)
        \/ HasMetaKeyword(msg)

----------------------------------------------------------------------------
(* _fix_group_by_issue applied to queries: some lines of a common table     *)
(* expression followed by lines of the final selection.                     *)

\* the result of a function: not returned yet, or the value it returned
NotReturned == <<>>
Returned(v) == <<v>>

\* the double quote the system prompt asks for around column names
Quote == "QUOTE"

\* lines before the final selection
FillerLines ==
    << <<"WITH", "t", "AS", "(">>,
       <<"SELECT", "*", "FROM", "data">>,
       <<")", ",", "u", "AS", "(">>,
       <<"SELECT", "1">>,
       <<")">>,
       <<"--", "result">> >>

\* lines of the final selection
BodyLines ==
    { <<"SELECT", LabelCol, ",", "AVG(", "temp", ")">>,
      <<"SELECT", "month", ",", LabelCol, ",", "AVG(", "temp", ")">>,
      <<"SELECT", "AVG(", "temp", ")", ",", LabelCol>>,
      <<"SELECT", Quote, LabelCol, Quote, ",", "AVG(", "temp", ")">>,
      <<"SELECT", "AVG(", "temp", ")", ",", Quote, LabelCol, Quote>>,
      <<"select", LabelCol, ",", "MAX(", "temp", ")">>,
      <<"SELECT", "ANY_VALUE(", LabelCol, ")", "AS", LabelCol, ",", "AVG(", "temp", ")">>,
      <<"SELECT", LabelCol, ",", "AVG(", "temp", ")", "FROM", "t", "GROUP BY", "month">>,
      <<"FROM", "t", "GROUP BY", Quote, "month", Quote>>,
      <<"FROM", "t", "group by", LabelCol>>,
      <<LabelCol, ",", "x", ",", LabelCol, ",">>,
      <<",", LabelCol>> }

\* the queries handed to the repair
RepairQueries ==
    {JoinLines(SubSeq(FillerLines, 1, k) \o body) :
        k \in 0..MaxFill,
        body \in UNION {[1..n -> BodyLines] : n \in 1..MaxBody}}

InitRepair ==
    /\ text = <<>> /\ meta = NoMetadata /\ intent = NotYet
    /\ arg \in RepairQueries
    /\ out = NotReturned /\ again = NotReturned
    /\ RunIdle

\* sql_query = self._fix_group_by_issue(sql_query)
Repair ==
    /\ out = NotReturned
    /\ out' = Returned(fix_group_by_issue(arg))
    /\ UNCHANGED <<text, meta, intent, arg, again>>
    /\ UNCHANGED runVars

\* the repair applied to a repaired query
RepairAgain ==
    /\ out # NotReturned /\ again = NotReturned
    /\ again' = Returned(fix_group_by_issue(out[1]))
    /\ UNCHANGED <<text, meta, intent, arg, out>>
    /\ UNCHANGED runVars

NextRepair == Repair \/ RepairAgain

SpecRepair == InitRepair /\ [][NextRepair]_vars

\* C12: _fix_group_by_issue applied to its own result returns that result
C12_RepairIdempotent ==
    again # NotReturned => again = out

C12_Witness ==
    /\ again # NotReturned /\ again = out
    /\ out[1] # arg
    /\ LineHas(out[1], "ANY_VALUE(")

\* the last line of q that holds SELECT: the final selection
FinalSelectLine(lines) ==
    CHOOSE f \in 1..Len(lines) :
        /\ LineHasUpper(lines[f], "SELECT")
        /\ \A j \in (f + 1)..Len(lines) : ~LineHasUpper(lines[j], "SELECT")

\* the label column written as a double-quoted identifier stands in the line
HasQuotedLabel(line) ==
    \E i \in 1..(Len(line) - 2) :
        line[i] = Quote /\ line[i + 1] = LabelCol /\ line[i + 2] = Quote

\* q projects the quoted label column non-aggregated in its final selection
\* and groups, from there on, only by other columns
NeedsRepair(q) ==
    LET lines == SplitLines(q, <<>>)
    IN  /\ \E f \in 1..Len(lines) : LineHasUpper(lines[f], "SELECT")
        /\ LET f == FinalSelectLine(lines)
           IN  /\ HasQuotedLabel(lines[f])
               /\ ~LineHas(lines[f], "ANY_VALUE(")
               /\ ~LineHas(lines[f], "MAX(")
               /\ \E j \in f..Len(lines) : LineHasUpper(lines[j], "GROUP BY")
               /\ \A j \in 1..Len(lines) :
                      LineHasUpper(lines[j], "GROUP BY") => ~LineHas(lines[j], LabelCol)

\* C13: a query that projects the double-quoted label column non-aggregated in
\* its final selection while grouping only by other columns comes back from
\* _fix_group_by_issue with that projection wrapped in ANY_VALUE
C13_QuotedLabelWrapped ==
    (out # NotReturned /\ NeedsRepair(arg)) => LineHas(out[1], "ANY_VALUE(")

\* ---------------------------------------------------------------------
\* _prepare_chart_data on its own: query results and user texts are drawn
\* from bounded sets, the function is applied once

\* most rows and most columns after the first of a drawn query result
MaxRows == 2
MaxCols == 2

\* num_labels <= 10 in the pie rule of _determine_chart_type
PieLabelLimit == 10

\* what a column after the first holds: 0, 5 or 1000 in every row, a string in
\* every row, or 5 in every row but the last, which holds a string
ColumnKinds == {"zero", "small", "big", "text", "late_text"}

CellAt(kind, r, n) ==
    IF kind = "zero" THEN IntCell(0)
    ELSE IF kind = "small" THEN IntCell(5)
    ELSE IF kind = "big" THEN IntCell(1000)
    ELSE IF kind = "text" THEN StrCell(r)
    ELSE IF r = n THEN StrCell(r) ELSE IntCell(5)

\* names of the first column: "month", "region", "category", "day count"
LabelColumnNames == {<<109, 111, 110, 116, 104>>, <<114, 101, 103, 105, 111, 110>>, <<99, 97, 116, 101, 103, 111, 114, 121>>, <<100, 97, 121, 32, 99, 111, 117, 110, 116>>}

\* the rows of a result: n rows, the first column named first, one further
\* column "a", "b", ... per entry of kinds
QueryResult(first, kinds, n) ==
    [keys |-> <<first>> \o [c \in 1..Len(kinds) |-> <<96 + c>>],
     rows |-> [r \in 1..n |->
                 <<StrCell(r)>> \o [c \in 1..Len(kinds) |-> CellAt(kinds[c], r, n)]]]

ChartResults ==
    {QueryResult(first, kinds, n) :
        first \in LabelColumnNames,
        kinds \in UNION {[1..c -> ColumnKinds] : c \in 0..MaxCols},
        n \in (0..MaxRows) \cup {PieLabelLimit + 1}}

\* user texts: for every set of the words "area", "bar", "line", "pie" the
\* words of the set in that order, each followed by a space
ChartTexts ==
    {(IF a THEN <<97, 114, 101, 97>> \o <<32>> ELSE <<>>) \o (IF b THEN <<98, 97, 114>> \o <<32>> ELSE <<>>)
       \o (IF l THEN <<108, 105, 110, 101>> \o <<32>> ELSE <<>>) \o (IF p THEN <<112, 105, 101>> \o <<32>> ELSE <<>>) :
        a \in BOOLEAN, b \in BOOLEAN, l \in BOOLEAN, p \in BOOLEAN}

InitChart ==
    /\ text = <<>> /\ meta = NoMetadata /\ intent = NotYet
    /\ arg \in [query_result : ChartResults, user_message : ChartTexts]
    /\ out = NotReturned /\ again = NotReturned
    /\ RunIdle

\* one call of _prepare_chart_data(query_result, user_message)
PrepareChart ==
    /\ out = NotReturned
    /\ out' = Returned(prepare_chart_data(arg.query_result, arg.user_message))
    /\ UNCHANGED <<text, meta, intent, arg, again>>
    /\ UNCHANGED runVars

NextChart == PrepareChart

SpecChart == InitChart /\ [][NextChart]_vars

\* the columns after the first of a query result that hold a number in every row
NumericColumns(result) ==
    {c \in 2..Len(result.keys) : \A r \in 1..Len(result.rows) : IsNumber(result.rows[r][c])}

\* a ChartSpec came back from the call
ChartReturned == out # NotReturned /\ out[1].some /\ out[1].chart_type # "raise"

\* C14: a returned ChartSpec has at least one dataset and every dataset holds
\* one value per row in row order; a column with a value that is not a number
\* gives no dataset; when no column qualifies nothing is returned
C14_DatasetsMatchLabels ==
    out # NotReturned =>
        LET chart == out[1]
            result == arg.query_result
            numeric == NumericColumns(result)
        IN  /\ ChartReturned =>
                /\ Len(chart.datasets) >= 1
                /\ Len(chart.labels) = Len(result.rows)
                /\ \A i \in 1..Len(chart.datasets) :
                      /\ Len(chart.datasets[i].data) = Len(chart.labels)
                      /\ \E c \in numeric :
                            /\ chart.datasets[i].label = result.keys[c]
                            /\ \A r \in 1..Len(result.rows) :
                                  chart.datasets[i].data[r] = result.rows[r][c]
                /\ Len(chart.datasets) = Cardinality(numeric)
            /\ numeric = {} => ~chart.some

C14_Witness ==
    /\ ChartReturned
    /\ Len(out[1].labels) >= 2
    /\ Len(out[1].datasets) = 1
    /\ Len(arg.query_result.keys) = 3
    /\ \E r \in 1..Len(arg.query_result.rows) : ~IsNumber(arg.query_result.rows[r][2])
    /\ IsNumber(arg.query_result.rows[1][2])

\* the user text of the call, lower-cased, holds a word of kws
TextHas(kws) == ContainsAny(Lower(arg.user_message), kws)

NoChartKeyword ==
    ~TextHas(PieWords) /\ ~TextHas(LineWords) /\ ~TextHas(BarWords) /\ ~TextHas(AreaWords)

\* the name of the label column matches a time pattern
TemporalLabel == ContainsAny(Lower(arg.query_result.keys[1]), time_patterns)

\* C15: in a returned ChartSpec the wording of the user text decides the kind:
\* a pie keyword with exactly one dataset gives pie, otherwise a line keyword
\* gives line, otherwise a bar keyword gives bar, otherwise an area keyword
\* gives area
C15_ExplicitWordingDecides ==
    ChartReturned =>
        LET n == Len(out[1].datasets)
            kind == out[1].chart_type
        IN  IF TextHas(PieWords) /\ n = 1 THEN kind = "pie"
            ELSE IF TextHas(LineWords) THEN kind = "line"
            ELSE IF TextHas(BarWords) THEN kind = "bar"
            ELSE IF TextHas(AreaWords) THEN kind = "area"
            ELSE TRUE

\* C16: without a chart keyword a label column with a temporal name gives
\* area for one dataset and line for two or more, whatever the number of
\* labels and the values of the datasets
C16_TemporalLabelFirst ==
    (out # NotReturned /\ out[1].some /\ NoChartKeyword /\ TemporalLabel) =>
        out[1].chart_type = (IF Len(out[1].datasets) = 1 THEN "area" ELSE "line")

C16_Witness ==
    /\ out # NotReturned /\ out[1].some /\ NoChartKeyword /\ TemporalLabel
    /\ ContainsAny(Lower(arg.query_result.keys[1]), aggregation_patterns)
    /\ Len(out[1].labels) <= PieLabelLimit
    /\ Len(out[1].datasets) = 1
    /\ out[1].chart_type = "area"

\* the chart of the call is a ChartSpec or the call raised; there is no chart
\* keyword, the label column is not temporal and two or more datasets exist
ScaleCase ==
    /\ out # NotReturned /\ out[1].some /\ NoChartKeyword /\ ~TemporalLabel
    /\ Len(out[1].datasets) >= 2

\* C17: without a chart keyword and with a label column that is not temporal,
\* two or more datasets whose means differ by more than a factor of 10 give
\* combo with the first dataset tagged bar and the others line, otherwise the
\* kind is bar; only a combo chart carries tags
C17_ComboOnScale ==
    /\ ScaleCase =>
          LET ds == out[1].datasets
              sums == DataSums(ds)
              mn == MinOf(sums)
              mx == MaxOf(sums)
          IN  /\ out[1].chart_type \in {"combo", "bar"}
              /\ (mn > 0 /\ mx > 10 * mn) => out[1].chart_type = "combo"
              /\ (mn > 0 /\ mx <= 10 * mn) => out[1].chart_type = "bar"
              /\ mn < 0 => out[1].chart_type = "bar"
              /\ out[1].chart_type = "combo" =>
                    \A i \in 1..Len(ds) : ds[i].type = (IF i = 1 THEN "bar" ELSE "line")
    /\ (out # NotReturned /\ out[1].some /\ out[1].chart_type # "combo") =>
          \A i \in 1..Len(out[1].datasets) : out[1].datasets[i].type = ""

\* ---------------------------------------------------------------------
\* The suggestion pool under concurrent requests: two callers run
\* get_cached_suggestions and generate_suggested_questions on one dataset;
\* a coroutine can be overtaken at every await of the store.
\* In this specification pool is the suggested_questions collection (the
\* questions of its documents for the dataset, in insertion order), pc and loc
\* hold the position and the locals of every caller (calls lists the
\* collaborators the running call has used), side counts the calls begun, out
\* is the value the last step returned to its caller, if it returned, and
\* prev is the set of questions find_one has ever been able to show.

\* most calls begun in one behaviour
MaxCalls == 2

Callers == {"r1", "r2"}

\* collection.find_one({"file_id": ...}): the first document of the dataset
FindOne(coll) == IF coll = <<>> THEN NoPoolDoc ELSE PoolDoc(coll[1])

\* locals of generate_suggested_questions
NoGsqLocals ==
    [force_new |-> FALSE, new_questions |-> <<>>, stored |-> NoPoolDoc, calls |-> <<>>]

\* a returned list, with the call it answers: its number, the function, the
\* document the call read, the candidates of the language model, the
\* collaborators it used and whether it ended in an except clause
Return(n, op, l, value, failed) ==
    Returned([n |-> n, op |-> op, force_new |-> l.force_new, value |-> value,
              stored |-> l.stored, new_questions |-> l.new_questions,
              calls |-> l.calls, failed |-> failed])

\* len(questions) >= 4 and random.sample(questions, 4)
SampleSize == 4

\* the collection before the calls: no document of the dataset, or one whose
\* questions are none, one fewer than a sample, or exactly a sample
InitialCollections ==
    {<<>>} \cup {<<SubSeq(PoolQuestions, 1, n)>> : n \in {0, SampleSize - 1, SampleSize}}

InitPool ==
    /\ text = <<>> /\ meta = NoMetadata /\ intent = NotYet
    /\ arg = NotYet /\ again = NotYet
    /\ out = NotReturned
    /\ pc = [p \in Callers |-> "idle"]
    /\ loc = [p \in Callers |-> NoGsqLocals]
    /\ side = 0
    /\ log = <<>>
    /\ pool \in InitialCollections
    /\ prev = Range(FindOne(pool).questions)
    /\ req = NoRequest /\ resp = NoResp /\ outcome = NoOutcome
    /\ chats = [s \in Sides |-> [c \in ChatIds |-> NoChatDoc]]

PoolFrame == UNCHANGED <<text, meta, intent, arg, again, req, resp, chats, outcome>>

\* get_cached_suggestions (lines 752-775)
GetCached(p) ==
    /\ pc[p] = "idle" /\ side < MaxCalls
    /\ side' = side + 1
    /\ \E fails \in BOOLEAN :
         \E v \in get_cached_suggestions(WeatherFile, FindOne(pool), fails) :
            out' = Return(side + 1, "get",
                          [NoGsqLocals EXCEPT !.stored = FindOne(pool),
                                              !.calls = <<"pool_find">>],
                          v, fails)
    /\ UNCHANGED <<pc, loc, log, pool, prev>>
    /\ PoolFrame

\* generate_suggested_questions is called (lines 777-793)
RefreshBegin(p) ==
    /\ pc[p] = "idle" /\ side < MaxCalls
    /\ side' = side + 1
    /\ \E force_new \in BOOLEAN :
         /\ loc' = [loc EXCEPT ![p] = [NoGsqLocals EXCEPT !.force_new = force_new]]
         /\ pc' = [pc EXCEPT ![p] = IF force_new THEN "llm" ELSE "find"]
    /\ out' = NotReturned
    /\ UNCHANGED <<log, pool, prev>>
    /\ PoolFrame

\* answers of the language model to the suggestion prompt in these calls: an
\* exception, a list of five with a duplicate and a stored question, a list of
\* one, a JSON value that is no list, and text that is not JSON
LlmPoolAnswers ==
    {[asked |-> TRUE, raised |-> TRUE, parsed |-> "bad", list |-> <<>>]}
    \cup {[asked |-> TRUE, raised |-> FALSE, parsed |-> a.parsed, list |-> a.list] :
             a \in {b \in SuggestAnswers : b.list # <<"n1", "n2", "n3", "n4">>}}

\* the lookup of the stored questions (lines 793-804)
RefreshFind(p) ==
    /\ pc[p] = "find"
    /\ LET stored == FindOne(pool)
           l == [loc[p] EXCEPT !.calls = Append(@, "pool_find")]
       IN  \E fails \in BOOLEAN :
             IF fails
             THEN /\ out' = Return(side, "refresh", l, ErrorDefaults, TRUE)
                  /\ pc' = [pc EXCEPT ![p] = "idle"]
             ELSE IF stored.exists /\ stored.questions # <<>>
             THEN /\ \E s \in SampleOrAll(stored.questions) :
                        out' = Return(side, "refresh", [l EXCEPT !.stored = stored], s, FALSE)
                  /\ pc' = [pc EXCEPT ![p] = "idle"]
             ELSE /\ out' = NotReturned
                  /\ pc' = [pc EXCEPT ![p] = "llm"]
    /\ loc' = [loc EXCEPT ![p].calls = Append(@, "pool_find")]
    /\ UNCHANGED <<log, side, pool, prev>>
    /\ PoolFrame

\* the call of the language model and the parsing of its answer (lines 806-873)
RefreshGenerate(p) ==
    /\ pc[p] = "llm"
    /\ LET l == [loc[p] EXCEPT !.calls = Append(@, "llm")]
       IN  \E a \in LlmPoolAnswers :
             IF a.raised
             THEN /\ out' = Return(side, "refresh", l, ErrorDefaults, TRUE)
                  /\ pc' = [pc EXCEPT ![p] = "idle"]
                  /\ loc' = [loc EXCEPT ![p] = l]
             ELSE /\ loc' = [loc EXCEPT ![p] =
                               [l EXCEPT !.new_questions = NewQuestions(WeatherFile, a)]]
                  /\ pc' = [pc EXCEPT ![p] = "find2"]
                  /\ out' = NotReturned
    /\ UNCHANGED <<log, side, pool, prev>>
    /\ PoolFrame

\* the second lookup (line 876)
RefreshFindAgain(p) ==
    /\ pc[p] = "find2"
    /\ LET l == [loc[p] EXCEPT !.calls = Append(@, "pool_find")]
       IN  \E fails \in BOOLEAN :
             IF fails
             THEN /\ out' = Return(side, "refresh", l, ErrorDefaults, TRUE)
                  /\ pc' = [pc EXCEPT ![p] = "idle"]
                  /\ loc' = [loc EXCEPT ![p] = l]
             ELSE /\ loc' = [loc EXCEPT ![p] = [l EXCEPT !.stored = FindOne(pool)]]
                  /\ pc' = [pc EXCEPT ![p] = "write"]
                  /\ out' = NotReturned
    /\ UNCHANGED <<log, side, pool, prev>>
    /\ PoolFrame

\* the merge and update_one, or insert_one, and the return (lines 877-909)
RefreshWrite(p) ==
    /\ pc[p] = "write"
    /\ LET l == [loc[p] EXCEPT !.calls = Append(@, "pool_write")]
           existing_questions == MergeQuestions(l.stored.questions, l.new_questions)
       IN  \E fails \in BOOLEAN :
             IF fails
             THEN /\ out' = Return(side, "refresh", l, ErrorDefaults, TRUE)
                  /\ pool' = pool
             ELSE IF l.stored.exists
             THEN /\ pool' = [pool EXCEPT ![1] = existing_questions]
                  /\ \E s \in SampleOrAll(existing_questions) :
                        out' = Return(side, "refresh", l, s, FALSE)
             ELSE /\ pool' = Append(pool, l.new_questions)
                  /\ out' = Return(side, "refresh", l, l.new_questions, FALSE)
    /\ prev' = prev \cup Range(FindOne(pool').questions)
    /\ pc' = [pc EXCEPT ![p] = "idle"]
    /\ loc' = [loc EXCEPT ![p].calls = Append(@, "pool_write")]
    /\ UNCHANGED <<log, side>>
    /\ PoolFrame

NextPool ==
    \E p \in Callers :
        \/ GetCached(p)
        \/ RefreshBegin(p)
        \/ RefreshFind(p)
        \/ RefreshGenerate(p)
        \/ RefreshFindAgain(p)
        \/ RefreshWrite(p)

SpecPool == InitPool /\ [][NextPool]_vars

\* the step returned from generate_suggested_questions
RefreshReturned == out # NotReturned /\ out[1].op = "refresh"

\* no string stands twice in the list
PairwiseDistinct(v) == \A i, j \in 1..Len(v) : i # j => v[i] # v[j]

\* C18: every call of generate_suggested_questions returns at most four
\* strings, pairwise distinct, each one a fallback question, a question of the
\* pool the call read or a candidate of the language model
C18_AtMostFourDistinct ==
    RefreshReturned =>
        LET r == out[1]
        IN  /\ Len(r.value) <= 4
            /\ PairwiseDistinct(r.value)
            /\ Range(r.value) \subseteq
                  Range(ErrorDefaults) \cup Range(ParseFailDefaults)
                  \cup Range(r.stored.questions) \cup Range(r.new_questions)

\* the step returned from get_cached_suggestions
GetReturned == out # NotReturned /\ out[1].op = "get"

\* the call that just returned used find_one only and left the document of
\* the dataset as it read it
OnlyRead(r) ==
    /\ FindOne(pool) = r.stored
    /\ \A i \in 1..Len(r.calls) : r.calls[i] \notin {"llm", "pool_write"}

C20_PoolOnlyGrows == prev \subseteq Range(FindOne(pool).questions)

\* ---------------------------------------------------------------------
\* Further properties of the runs (specification Spec)

\* no collaborator the run asked has raised
NoCollaboratorRaised ==
    \A k \in DOMAIN resp : resp[k].asked => ~resp[k].raised

\* C21: a finished streaming run on the query path has refreshed the
\* suggestion pool of its dataset: it has asked for new candidates and written
\* the merged pool, besides returning suggestions with the final payload
C21_QueryPathRefreshes ==
    (/\ pc = "done" /\ req.handler = "stream" /\ loc.intent = "query"
     /\ outcome.status = "complete" /\ NoCollaboratorRaised)
    => /\ CallsTo(log, {"pool_write"}) # {}
       /\ outcome.suggested.some

\* the language model or the store failed while the run looked up or
\* refreshed the suggestions
SuggestionFailed ==
    \/ resp.pool_store.asked /\ resp.pool_store.raised
    \/ resp.llm_suggest.asked /\ resp.llm_suggest.raised

\* the suggestions of the final payload are questions of the stored pool or
\* one of the fixed sets
PoolOrFixedSet ==
    /\ outcome.suggested.some
    /\ \/ SuggestedItems \in {CachedDefaults, ErrorDefaults}
       \/ pool[side].exists /\ SuggestedItems \in SampleOrAll(pool[side].questions)

\* C22: when the language model or the store fails during the lookup or the
\* refresh of the suggestions, the run still completes with its answer and
\* its stored assistant turn, and the suggestions it carries are the stored
\* pool or a fixed set
C22_SuggestionFailureContained ==
    (pc = "done" /\ RunStored /\ SuggestionFailed)
    => /\ outcome.status = "complete"
       /\ OneAssistantTurn
       /\ PoolOrFixedSet

\* Overlapping runs on one conversation (specification SpecChat): the variable
\* chats is the stored chat_history document of one chat_id, pc and loc are
\* functions over the requests in flight, side counts the runs begun, out is
\* the document a write stored and prev the messages stored before that write

\* the texts of the requests and the answers their processing arrived at
ChatTexts == {<<104, 105>>, <<45348>>}

ChatAnswers ==
    {Content("greeting", <<>>, 0), Content("llm_text", <<"answer">>, 0)}

\* locals of event_generator that the conversation depends on
NoChatLocals == [messages |-> <<>>, history |-> <<>>]

InitChat ==
    /\ text = <<>> /\ meta = NoMetadata /\ intent = NotYet
    /\ arg = NotYet /\ again = NotYet
    /\ out = NotReturned
    /\ pc = [p \in Callers |-> "idle"]
    /\ loc = [p \in Callers |-> NoChatLocals]
    /\ side = 0
    /\ log = <<>>
    /\ chats \in InitialChatDocs
    /\ prev = chats.messages
    /\ req = NoRequest /\ resp = NoResp /\ outcome = NoOutcome
    /\ pool = <<>>

ChatFrame == UNCHANGED <<text, meta, intent, arg, again, req, resp, pool, outcome, log>>

\* find_one, ChatHistory(**chat_doc) or a new one, conversation_history and
\* the append of the user turn (chat.py 129-156)
ChatRead(p) ==
    /\ pc[p] = "idle" /\ side < MaxCalls
    /\ side' = side + 1
    /\ \E m \in ChatTexts :
         loc' = [loc EXCEPT ![p] =
                    [messages |-> Append(chats.messages, UserTurn(m)),
                     history |-> ConversationHistory(chats.messages)]]
    /\ pc' = [pc EXCEPT ![p] = "answered"]
    /\ out' = NotReturned
    /\ UNCHANGED <<chats, prev>>
    /\ ChatFrame

\* the append of the assistant turn and replace_one(..., upsert=True)
\* (chat.py 255-271); a store that raises leaves the document as it was
ChatWrite(p) ==
    /\ pc[p] = "answered"
    /\ \E c \in ChatAnswers, fails \in BOOLEAN :
         LET doc == ChatDoc(Append(loc[p].messages, AssistantTurn(c, NoSql, NoChart)))
         IN  IF fails
             THEN /\ out' = NotReturned
                  /\ UNCHANGED <<chats, prev>>
             ELSE /\ chats' = doc
                  /\ prev' = chats.messages
                  /\ out' = Returned(doc)
    /\ pc' = [pc EXCEPT ![p] = "idle"]
    /\ loc' = [loc EXCEPT ![p] = NoChatLocals]
    /\ UNCHANGED side
    /\ ChatFrame

NextChat == \E p \in Callers : ChatRead(p) \/ ChatWrite(p)

SpecChat == InitChat /\ [][NextChat]_vars

IsPrefix(s, t) == Len(s) <= Len(t) /\ SubSeq(t, 1, Len(s)) = s

\* C23: the turn sequence stored by a run has the previously stored sequence
\* as a prefix, also when two runs of one conversation overlap between their
\* read and their write
C23_ConversationAppendOnly == IsPrefix(prev, chats.messages)

\* The messages sent to the language model (specification Spec)

IsSuffix(s, t) == Len(s) <= Len(t) /\ SubSeq(t, Len(t) - Len(s) + 1, Len(t)) = s

\* the turns stored for the conversation when the run read it: the handlers
\* write the document as their last step only
PriorTurns == ConversationHistory(StoredChat.messages)

GenerationAsked == loc.sent # <<>> /\ pc # "done"

\* C24: the message list sent to the language model in GENERATING_QUERY is one
\* system message, at most the 3 most recent previously stored turns in their
\* order, and one user message holding the current text; no older turn is sent
\* (in the list or in the system prompt) and the current user turn is not one
\* of the prior turns
C24_RecentTurnsOnly ==
    GenerationAsked =>
        LET n == Len(loc.sent)
            turns == SubSeq(loc.sent, 2, n - 1)
        IN  /\ n >= 2
            /\ loc.sent[1].role = "system"
            /\ loc.sent[1].content.kind = "system"
            /\ Len(loc.sent[1].content.body) <= 3
            /\ IsSuffix(loc.sent[1].content.body, PriorTurns)
            /\ Len(turns) <= 3
            /\ IsSuffix(turns, PriorTurns)
            /\ loc.sent[n].role = "user"
            /\ loc.sent[n].content.kind = "prompt"
            /\ loc.sent[n].content.text = req.message

\* a generation for a conversation of more than 3 stored turns, 3 of them sent
C24_Witness ==
    /\ GenerationAsked
    /\ Len(PriorTurns) > 3
    /\ Len(loc.sent) = 5
    /\ loc.sent[2] = PriorTurns[Len(PriorTurns) - 2]

\* The order of the classifier's rules (specification SpecIntent)

\* no keyword of the dataset name or of a column name, and no analytic keyword
NoDataKeyword(user_message, md) ==
    LET msg == Strip(user_message)
    IN  /\ ~HasKeywordMatch(filename_keywords(md), Lower(msg))
        /\ ~HasKeywordMatch(column_keywords(md), Lower(msg))
        /\ \A k \in 1..Len(analysis_keywords) : ~Contains(msg, analysis_keywords[k])

\* rules 1 to 4 of the decision policy: the length, the question mark, the
\* greetings and the isolated phonetic components
FirstRulesMatch(user_message) ==
    LET msg == Strip(user_message)
    IN  \/ Len(msg) <= 2
        \/ msg \in QuestionMarkGlyphs
        \/ MatchesIrrelevant(Lower(msg))
        \/ MatchesMeaningless(msg)
        \/ jamo_count(msg) >= 1
        \/ (Len(msg) >= 3 /\ ~HasSyllableWord(msg))

\* rules 6 to 8 of the decision policy
LaterRules(user_message) ==
    LET msg == Strip(user_message)
    IN  IF MatchesExplanation(msg) THEN "explanation"
        ELSE IF HasMetaKeyword(msg) THEN "metadata"
        ELSE "query"

\* C25: with a schema, a text that passes rules 1-4 and holds no keyword of
\* the dataset and no analytic keyword is unrelated_to_data, also when it
\* matches an explanation pattern or holds a metadata keyword; with no schema
\* the text is classified by rules 6-8 and never as unrelated_to_data
C25_RuleFiveBeforeLaterRules ==
    (intent # NotYet /\ ~FirstRulesMatch(text))
    => /\ (meta # NoMetadata /\ NoDataKeyword(text, meta)) => intent = "unrelated_to_data"
       /\ meta = NoMetadata
            => intent = LaterRules(text) /\ analyze_intent(text, NoMetadata) # "unrelated_to_data"
       /\ meta # NoMetadata => analyze_intent(text, NoMetadata) = LaterRules(text)

\* a text that matches an explanation pattern or holds a metadata keyword and
\* is unrelated_to_data with the schema
C25_Witness ==
    /\ intent = "unrelated_to_data"
    /\ meta # NoMetadata
    /\ ~FirstRulesMatch(text)
    /\ LaterRules(text) \in {"explanation", "metadata"}
    /\ analyze_intent(text, NoMetadata) = LaterRules(text)

\* Further properties of the repair (specification SpecRepair)

\* the number of times the repair's aggregate stands in a query
Rewrites(q) == Cardinality({i \in 1..Len(q) : q[i] = "ANY_VALUE("})

\* C26: the repair rewrites at most one projection occurrence of the label
\* column, also when the column appears several times in the final selection
C26_AtMostOneRewrite ==
    out # NotReturned => Rewrites(out[1]) <= Rewrites(arg) + 1

\* the positions of the GROUP BY keyword in a query
GroupByAt(q) == {i \in 1..Len(q) : UpperTok(q[i]) = "GROUP BY"}

\* the label column stands in the grouping clause: after a GROUP BY keyword,
\* on its line or on a later one
LabelInGrouping(q) ==
    \E i \in GroupByAt(q) : \E j \in (i + 1)..Len(q) : q[j] = LabelCol

\* C27: the repair returns the query unchanged when the query has no grouping
\* clause or the label column already stands in the grouping clause, also
\* when the clause names the column on a line after the GROUP BY keyword
C27_UnchangedWhenGrouped ==
    (out # NotReturned /\ (GroupByAt(arg) = {} \/ LabelInGrouping(arg)))
    => out[1] = arg

\* Further properties of the chart selection (specification SpecChart)

\* C28: for every result with at least one row and at least 2 columns the
\* chart selection returns a ChartSpec or nothing and never fails, also when
\* two or more datasets exist and the smallest dataset mean is 0 or negative
C28_SelectNeverFails ==
    (/\ out # NotReturned
     /\ Len(arg.query_result.rows) >= 1
     /\ Len(arg.query_result.keys) >= 2)
    => out[1].chart_type # "raise"

\* Further properties of the pool (specification SpecPool)

\* C29: after any interleaving of refresh calls for the dataset, also two
\* concurrent first refreshes, the collection holds at most one pool document
\* of the dataset
C29_OnePoolDocument == Len(pool) <= 1

\* The events of a streaming run (specification Spec)

\* the positions of the terminal events in the log
Terminals(l) == {k \in 1..Len(l) : l[k].t \in {"complete", "error"}}

StreamingRun == req.handler = "stream" /\ pc # "idle"

\* C30: a streaming run emits exactly one terminal event, complete or error,
\* as its last event, so every status event precedes it; complete is emitted
\* only after the conversation write has succeeded; with an unknown dataset
\* the run emits an error event only, writes no conversation and calls no
\* collaborator
C30_OneTerminalEventLast ==
    StreamingRun =>
        /\ pc # "done" => Terminals(log) = {}
        /\ pc = "done" => Terminals(log) = {Len(log)}
        /\ \A k \in Terminals(log) :
              log[k].t = "complete" =>
                  /\ k > 1 /\ log[k - 1] = Call("chat_replace")
                  /\ resp.chat_store.asked /\ ~resp.chat_store.raised
                  /\ StoredChat.exists
                  /\ StoredChat.messages =
                        Append(loc.messages,
                               AssistantTurn(outcome.content, outcome.sql, outcome.chart))
        /\ (pc = "done" /\ get_file_by_id(req.file_id) = NoMetadata) =>
              /\ log = <<Final("error")>>
              /\ chats[side][ChatIdOf(req)] \in InitialChatDocs

\* a streaming run that sent status events, stored the conversation and ended
\* with complete
C30_Witness ==
    /\ StreamingRun /\ pc = "done"
    /\ log[Len(log)].t = "complete"
    /\ Cardinality({k \in 1..Len(log) : log[k].t = "status"}) >= 2
    /\ StoredChat.exists

=========================================================================
